---- MODULE Spec2Model ----
(***************************************************************************)
(* Model of the text transcoding engine of app/routes/home.tsx: the pure   *)
(* transducers toMorse, fromMorse, textToBinary, binaryToText, textToHex,  *)
(* hexToText, textToBase64, base64ToText, urlEncode, urlDecode, rot and    *)
(* inspectUnicode, and the calls the translator cards make to them.        *)
(*                                                                         *)
(* A string is a JavaScript string: a finite sequence of UTF-16 code       *)
(* units, each a number in 0..65535.  A call completes either by           *)
(* returning a value or by throwing.                                       *)
(***************************************************************************)
EXTENDS Integers, Sequences, FiniteSets, TLC

(***************************************************************************)
(* Notation: S("Hi") is the string Hi as code units <<72, 105>>.           *)
(***************************************************************************)
AsciiFrom32 == " !\"#$%&'()*+,-./0123456789:;<=>?@ABCDEFGHIJKLMNOPQRSTUVWXYZ[\\]^_"

AsciiFrom97 == "abcdefghijklmnopqrstuvwxyz{|}~"

OrdTable ==
  [c \in {SubSeq(AsciiFrom32, i, i) : i \in 1..Len(AsciiFrom32)}
          \cup {SubSeq(AsciiFrom97, i, i) : i \in 1..Len(AsciiFrom97)} |->
     IF \E i \in 1..Len(AsciiFrom32) : SubSeq(AsciiFrom32, i, i) = c
     THEN 31 + (CHOOSE i \in 1..Len(AsciiFrom32) : SubSeq(AsciiFrom32, i, i) = c)
     ELSE 96 + (CHOOSE i \in 1..Len(AsciiFrom97) : SubSeq(AsciiFrom97, i, i) = c)]

Ord(c) == OrdTable[c]

S(s) == [i \in 1..Len(s) |-> Ord(SubSeq(s, i, i))]

(***************************************************************************)
(* Generic sequence helpers (Array.prototype.join / filter / map).  They   *)
(* are written by halving so that the evaluation depth grows with the      *)
(* logarithm of the length.                                                *)
(***************************************************************************)
\* The concatenation of parts[lo..hi].
RECURSIVE ConcatRange(_, _, _)
ConcatRange(parts, lo, hi) ==
  IF lo > hi THEN <<>>
  ELSE IF lo = hi THEN parts[lo]
  ELSE LET mid == (lo + hi) \div 2
       IN ConcatRange(parts, lo, mid) \o ConcatRange(parts, mid + 1, hi)

Concat(parts) == ConcatRange(parts, 1, Len(parts))

\* parts.join(sep)
Join(parts, sep) ==
  Concat([i \in 1..(2 * Len(parts) - 1) |-> IF i % 2 = 1 THEN parts[(i + 1) \div 2] ELSE sep])

\* parts.filter((p) => p.length > 0)
NonEmpty(parts) ==
  Concat([i \in 1..Len(parts) |-> IF Len(parts[i]) > 0 THEN <<parts[i]>> ELSE <<>>])

\* The elements of s that are not in the set drop.
Without(s, drop) ==
  Concat([i \in 1..Len(s) |-> IF s[i] \in drop THEN <<>> ELSE <<s[i]>>])

\* The least element of a non-empty set of integers.
Least(set) == CHOOSE x \in set : \A y \in set : x <= y

Greatest(set) == CHOOSE x \in set : \A y \in set : x >= y

(***************************************************************************)
(* A completion: the call returned val, or it threw the named exception.   *)
(***************************************************************************)
Return(v) == [kind |-> "return", val |-> v]

Throw(name) == [kind |-> "throw", val |-> name]

(***************************************************************************)
(* ECMAScript character sets.                                              *)
(***************************************************************************)
\* WhiteSpace and LineTerminator: what \s matches and what trim() removes.
IsWhiteSpace(c) ==
  \/ c \in {9, 10, 11, 12, 13, 32, 160, 5760, 8232, 8233, 8239, 8287, 12288, 65279}
  \/ (c >= 8192 /\ c <= 8202)

IsLineTerminator(c) == c \in {10, 13, 8232, 8233}

\* SyntaxCharacter of the pattern grammar.
SyntaxChars == {Ord("^"), Ord("$"), Ord("\\"), Ord("."), Ord("*"), Ord("+"), Ord("?"), Ord("("), Ord(")"), Ord("["), Ord("]"), Ord("{"), Ord("}"), Ord("|")}

IsDigit(c) == c >= 48 /\ c <= 57

\* String.prototype.trim
Trim(s) ==
  LET solid == {i \in 1..Len(s) : ~IsWhiteSpace(s[i])}
  IN IF solid = {} THEN <<>> ELSE SubSeq(s, Least(solid), Greatest(solid))

(***************************************************************************)
(* new RegExp(pattern): the pattern grammar of ECMAScript (non-unicode     *)
(* mode, Annex B) for the constructs the engine's patterns can contain:    *)
(* literal characters, identity escapes, \s, '.', '^', '$', groups,        *)
(* alternation and the quantifiers * + ? {n} {n,} {n,m}.  A parse yields   *)
(* [node, next, err]; err is "" or the reason of the SyntaxError, or       *)
(* "OutsideModel" for a construct this model does not interpret.           *)
(***************************************************************************)
ParseOk(node, next) == [node |-> node, next |-> next, err |-> ""]

ParseErr(why) == [node |-> <<>>, next |-> 0, err |-> why]

\* DecimalDigits starting at i: [val, next]; next = i when there is none.
RECURSIVE ReadInt(_, _, _)
ReadInt(p, i, acc) ==
  IF i <= Len(p) /\ IsDigit(p[i]) THEN ReadInt(p, i + 1, acc * 10 + (p[i] - 48))
  ELSE [val |-> acc, next |-> i]

NoQuantifier(i) == [ok |-> FALSE, min |-> 0, max |-> 0, next |-> i]

Quantifier(min, max, next) == [ok |-> TRUE, min |-> min, max |-> max, next |-> next]

\* {n,m} once n (a) and m (b) are read.
BraceQuantUpper(p, i, a, b) ==
  IF b.next = a.next + 1 \/ b.next > Len(p) \/ p[b.next] # Ord("}") THEN NoQuantifier(i)
  ELSE Quantifier(a.val, b.val, b.next + 1)

\* {n} {n,} {n,m} once n (a) is read.
BraceQuantLower(p, i, a) ==
  IF ~(i <= Len(p) /\ p[i] = Ord("{")) \/ a.next = i + 1 \/ a.next > Len(p) THEN NoQuantifier(i)
  ELSE IF p[a.next] = Ord("}") THEN Quantifier(a.val, a.val, a.next + 1)
  ELSE IF p[a.next] # Ord(",") \/ a.next + 1 > Len(p) THEN NoQuantifier(i)
  ELSE IF p[a.next + 1] = Ord("}") THEN Quantifier(a.val, -1, a.next + 2)
  ELSE BraceQuantUpper(p, i, a, ReadInt(p, a.next + 1, 0))

\* A braced quantifier {n} {n,} {n,m} at i: [ok, min, max, next]; max = -1 is unbounded.
BraceQuant(p, i) == BraceQuantLower(p, i, ReadInt(p, i + 1, 0))

\* The quantifier symbol at i, if any.
QuantifierAt(p, i) ==
  IF i > Len(p) THEN NoQuantifier(i)
  ELSE IF p[i] = Ord("*") THEN Quantifier(0, -1, i + 1)
  ELSE IF p[i] = Ord("+") THEN Quantifier(1, -1, i + 1)
  ELSE IF p[i] = Ord("?") THEN Quantifier(0, 1, i + 1)
  ELSE BraceQuant(p, i)

\* The atom under the quantifier q; a following '?' makes it lazy.
Quantified(p, i, atom, q, lazy) ==
  IF ~q.ok THEN ParseOk(atom, i)
  ELSE IF q.max # -1 /\ q.max < q.min THEN ParseErr("numbers out of order in {} quantifier")
  ELSE ParseOk([k |-> "rep", a |-> atom, min |-> q.min, max |-> q.max, greedy |-> ~lazy],
               IF lazy THEN q.next + 1 ELSE q.next)

QuantifiedBy(p, i, atom, q) ==
  Quantified(p, i, atom, q, q.ok /\ q.next <= Len(p) /\ p[q.next] = Ord("?"))

\* The quantifier (if any) that follows an atom ending before i.
ParseQuantifier(p, i, atom) == QuantifiedBy(p, i, atom, QuantifierAt(p, i))

RECURSIVE ParseDisjunction(_, _)
RECURSIVE ParseAlternative(_, _, _)
RECURSIVE ParseTerm(_, _)
RECURSIVE ParseAtom(_, _)

\* A group whose disjunction d is parsed: the ')' must follow.
GroupOf(p, capturing, d) ==
  IF d.err # "" THEN d
  ELSE IF d.next > Len(p) THEN ParseErr("Unterminated group")
  ELSE ParseOk([k |-> "group", d |-> d.node, capturing |-> capturing], d.next + 1)

\* '(' at i: (?: is a non-capturing group, any other (? is outside the model.
ParseGroup(p, i, nonCapturing) ==
  IF i + 1 <= Len(p) /\ p[i + 1] = Ord("?") /\ ~nonCapturing THEN ParseErr("OutsideModel")
  ELSE GroupOf(p, ~nonCapturing, ParseDisjunction(p, IF nonCapturing THEN i + 3 ELSE i + 1))

ParseAtomOf(p, i, c) ==
  IF c = Ord("^") THEN ParseOk([k |-> "bol"], i + 1)
  ELSE IF c = Ord("$") THEN ParseOk([k |-> "eol"], i + 1)
  ELSE IF c = Ord(".") THEN ParseOk([k |-> "any"], i + 1)
  ELSE IF c = Ord("\\") THEN
    IF i = Len(p) THEN ParseErr("\\ at end of pattern")
    ELSE IF p[i + 1] = Ord("s") THEN ParseOk([k |-> "ws"], i + 2)
    ELSE IF p[i + 1] \in SyntaxChars \cup {Ord("/")} THEN ParseOk([k |-> "char", c |-> p[i + 1]], i + 2)
    ELSE ParseErr("OutsideModel")
  ELSE IF c = Ord("(") THEN
    ParseGroup(p, i, i + 2 <= Len(p) /\ p[i + 1] = Ord("?") /\ p[i + 2] = Ord(":"))
  ELSE IF c \in {Ord("*"), Ord("+"), Ord("?")} THEN ParseErr("Nothing to repeat")
  ELSE IF c = Ord("{") /\ BraceQuant(p, i).ok THEN ParseErr("Nothing to repeat")
  ELSE IF c = Ord("[") THEN
    IF \E j \in (i + 1)..Len(p) : p[j] = Ord("]") THEN ParseErr("OutsideModel")
    ELSE ParseErr("Unterminated character class")
  ELSE ParseOk([k |-> "char", c |-> c], i + 1)

ParseAtom(p, i) == ParseAtomOf(p, i, p[i])

\* An assertion takes no quantifier.
TermOf(p, a) ==
  IF a.err # "" THEN a
  ELSE IF a.node.k \in {"bol", "eol"} THEN a
  ELSE ParseQuantifier(p, a.next, a.node)

ParseTerm(p, i) == TermOf(p, ParseAtom(p, i))

AlternativeWith(p, acc, t) ==
  IF t.err # "" THEN t ELSE ParseAlternative(p, t.next, Append(acc, t.node))

ParseAlternative(p, i, acc) ==
  IF i > Len(p) \/ p[i] \in {Ord("|"), Ord(")")} THEN ParseOk(acc, i)
  ELSE AlternativeWith(p, acc, ParseTerm(p, i))

\* The alternative a followed by the alternatives r after a '|'.
DisjunctionOf(a, r) ==
  IF r.err # "" THEN r
  ELSE ParseOk([k |-> "alt", alts |-> <<a.node>> \o r.node.alts], r.next)

DisjunctionFrom(p, a) ==
  IF a.err # "" THEN a
  ELSE IF a.next <= Len(p) /\ p[a.next] = Ord("|")
       THEN DisjunctionOf(a, ParseDisjunction(p, a.next + 1))
       ELSE ParseOk([k |-> "alt", alts |-> <<a.node>>], a.next)

ParseDisjunction(p, i) == DisjunctionFrom(p, ParseAlternative(p, i, <<>>))

\* The completion of new RegExp for the parse d of the whole pattern.
RegExpOf(pattern, d) ==
  IF d.err = "OutsideModel" THEN Throw("OutsideModel")
  ELSE IF d.err # "" THEN Throw("SyntaxError")
  ELSE IF d.next <= Len(pattern) THEN Throw("SyntaxError")   \* Unmatched ')'
  ELSE Return(d.node)

\* new RegExp(pattern): Return(the parsed pattern) or Throw("SyntaxError").
NewRegExp(pattern) == RegExpOf(pattern, ParseDisjunction(pattern, 1))

(***************************************************************************)
(* Matching: the end positions at which a node can match when started at   *)
(* pos, in the order the backtracking matcher of ECMAScript tries them;    *)
(* the first one is the match.  Positions are 1..Len(s)+1.                 *)
(***************************************************************************)
RECURSIVE MatchDisj(_, _, _)
RECURSIVE MatchSeq(_, _, _, _)
RECURSIVE MatchTerm(_, _, _)
RECURSIVE MatchRep(_, _, _, _)

MatchDisj(d, s, pos) ==
  Concat([a \in 1..Len(d.alts) |-> MatchSeq(d.alts[a], 1, s, pos)])

MatchSeq(terms, k, s, pos) ==
  IF k > Len(terms) THEN <<pos>>
  ELSE LET ends == MatchTerm(terms[k], s, pos)
       IN Concat([e \in 1..Len(ends) |-> MatchSeq(terms, k + 1, s, ends[e])])

MatchTerm(t, s, pos) ==
  IF t.k = "char" THEN (IF pos <= Len(s) /\ s[pos] = t.c THEN <<pos + 1>> ELSE <<>>)
  ELSE IF t.k = "any" THEN (IF pos <= Len(s) /\ ~IsLineTerminator(s[pos]) THEN <<pos + 1>> ELSE <<>>)
  ELSE IF t.k = "ws" THEN (IF pos <= Len(s) /\ IsWhiteSpace(s[pos]) THEN <<pos + 1>> ELSE <<>>)
  ELSE IF t.k = "bol" THEN (IF pos = 1 THEN <<pos>> ELSE <<>>)
  ELSE IF t.k = "eol" THEN (IF pos = Len(s) + 1 THEN <<pos>> ELSE <<>>)
  ELSE IF t.k = "group" THEN MatchDisj(t.d, s, pos)
  ELSE MatchRep(t, s, pos, 0)

\* RepeatMatcher: once min is reached an iteration that matches the empty
\* string fails.  An atom that consumes exactly one character repeats over
\* the run of characters it accepts, the longest repetition tried first
\* (greedy) or last (lazy).
MatchRep(t, s, pos, n) ==
  IF t.a.k \in {"char", "any", "ws"} THEN
    LET stopAt == Least({j \in pos..(Len(s) + 1) : MatchTerm(t.a, s, j) = <<>>})
        most   == IF t.max = -1 \/ stopAt - pos <= t.max THEN stopAt - pos ELSE t.max
        count  == IF most >= t.min THEN most - t.min + 1 ELSE 0
    IN [i \in 1..count |-> IF t.greedy THEN pos + most - (i - 1) ELSE pos + t.min + (i - 1)]
  ELSE
    LET ends == IF t.max = -1 \/ n < t.max
                THEN (IF n < t.min THEN MatchTerm(t.a, s, pos) ELSE Without(MatchTerm(t.a, s, pos), {pos}))
                ELSE <<>>
        more == Concat([e \in 1..Len(ends) |-> MatchRep(t, s, ends[e], n + 1)])
        stop == IF n >= t.min THEN <<pos>> ELSE <<>>
    IN IF t.greedy THEN more \o stop ELSE stop \o more

\* The end of the match of re that starts exactly at pos, or 0 when there is none.
MatchAt(re, s, pos) ==
  LET ends == MatchDisj(re, s, pos) IN IF Len(ends) = 0 THEN 0 ELSE ends[1]

\* String.prototype.split(re): RegExp.prototype[@@split] without a limit
\* (no pattern of the engine has a capturing group).  From the end p of the
\* last separator the next separator is the leftmost match that is not an
\* empty match at p.
RECURSIVE SplitFrom(_, _, _)
SplitFrom(re, s, p) ==
  LET starts == {q \in p..Len(s) : MatchAt(re, s, q) \notin {0, p}}
  IN IF starts = {} THEN <<SubSeq(s, p, Len(s))>>
     ELSE <<SubSeq(s, p, Least(starts) - 1)>> \o SplitFrom(re, s, MatchAt(re, s, Least(starts)))

RegExpSplit(re, s) ==
  IF Len(s) = 0 THEN (IF MatchAt(re, s, 1) # 0 THEN <<>> ELSE <<s>>)
  ELSE SplitFrom(re, s, 1)

\* String.prototype.replace(re, "") for a pattern without the g flag:
\* the leftmost match is removed.
RegExpRemoveFirst(re, s) ==
  LET starts == {i \in 1..(Len(s) + 1) : MatchAt(re, s, i) # 0}
  IN IF starts = {} THEN s
     ELSE SubSeq(s, 1, Least(starts) - 1) \o SubSeq(s, MatchAt(re, s, Least(starts)), Len(s))

\* String.prototype.split(sep) for a separator of one character.
SplitOnString(s, sep) ==
  LET at   == Without([i \in 1..Len(s) |-> IF s[i] = sep[1] THEN i ELSE 0], {0})
      cuts == <<0>> \o at \o <<Len(s) + 1>>
  IN [k \in 1..(Len(cuts) - 1) |-> SubSeq(s, cuts[k] + 1, cuts[k + 1] - 1)]

(***************************************************************************)
(* Unicode views of a string.                                              *)
(***************************************************************************)
IsHighSurrogate(c) == c >= 55296 /\ c <= 56319

IsLowSurrogate(c) == c >= 56320 /\ c <= 57343

\* [...s]: the string iterator; one string per code point, a surrogate pair
\* taken together and a lone surrogate on its own.
RECURSIVE Spread(_)
Spread(s) ==
  IF Len(s) = 0 THEN <<>>
  ELSE IF Len(s) >= 2 /\ IsHighSurrogate(s[1]) /\ IsLowSurrogate(s[2])
       THEN <<SubSeq(s, 1, 2)>> \o Spread(SubSeq(s, 3, Len(s)))
       ELSE <<SubSeq(s, 1, 1)>> \o Spread(Tail(s))

\* String.prototype.toUpperCase on the code units of Basic Latin and
\* Latin-1; every other code unit the model draws has no case mapping.
UpperOfUnit(c) ==
  IF c >= 97 /\ c <= 122 THEN <<c - 32>>
  ELSE IF c = 181 THEN <<924>>
  ELSE IF c = 223 THEN <<83, 83>>
  ELSE IF c >= 224 /\ c <= 254 /\ c # 247 THEN <<c - 32>>
  ELSE IF c = 255 THEN <<376>>
  ELSE <<c>>

ToUpperCase(s) == Concat([i \in 1..Len(s) |-> UpperOfUnit(s[i])])

(***************************************************************************)
(* The Symbol Table.                                                       *)
(***************************************************************************)
\* The object literal MORSE, in source order.
MorseLiteral ==
  << <<"A", ".-">>, <<"B", "-...">>, <<"C", "-.-.">>, <<"D", "-..">>, <<"E", ".">>,
     <<"F", "..-.">>, <<"G", "--.">>, <<"H", "....">>, <<"I", "..">>, <<"J", ".---">>,
     <<"K", "-.-">>, <<"L", ".-..">>, <<"M", "--">>, <<"N", "-.">>, <<"O", "---">>,
     <<"P", ".--.">>, <<"Q", "--.-">>, <<"R", ".-.">>, <<"S", "...">>, <<"T", "-">>,
     <<"U", "..-">>, <<"V", "...-">>, <<"W", ".--">>, <<"X", "-..-">>, <<"Y", "-.--">>,
     <<"Z", "--..">>,
     <<"0", "-----">>, <<"1", ".----">>, <<"2", "..---">>, <<"3", "...--">>, <<"4", "....-">>,
     <<"5", ".....">>, <<"6", "-....">>, <<"7", "--...">>, <<"8", "---..">>, <<"9", "----.">>,
     <<".", ".-.-.-">>, <<",", "--..--">>, <<"?", "..--..">>, <<"'", ".----.">>,
     <<"!", "-.-.--">>, <<"/", "-..-.">>, <<"(", "-.--.">>, <<")", "-.--.-">>,
     <<"&", ".-...">>, <<":", "---...">>, <<";", "-.-.-.">>, <<"=", "-...-">>,
     <<"+", ".-.-.">>, <<"-", "-....-">>, <<"_", "..--.-">>, <<"\"", ".-..-.">>,
     <<"$", "...-..-">>, <<"@", ".--.-.">> >>

\* Own properties of an object built from [key, value] entries: a later
\* entry with the same key overwrites an earlier one.
ObjectOf(entries) ==
  [k \in {entries[i][1] : i \in 1..Len(entries)} |->
     entries[CHOOSE i \in 1..Len(entries) :
               /\ entries[i][1] = k
               /\ \A j \in (i + 1)..Len(entries) : entries[j][1] # k][2]]

\* The table with the signal of "?" typed a second time, for "_".
MorseSharedSignal ==
  ObjectOf([i \in 1..Len(MorseLiteral) |->
              <<S(MorseLiteral[i][1]),
                IF MorseLiteral[i][1] = "_" THEN S("..--..") ELSE S(MorseLiteral[i][2])>>])

MORSE == ObjectOf([i \in 1..Len(MorseLiteral) |-> <<S(MorseLiteral[i][1]), S(MorseLiteral[i][2])>>])

\* Object.entries(MORSE): integer-like keys in ascending order first, then
\* the other keys in the order they were created.
IsIndexKey(k) == Len(k) = 1 /\ IsDigit(k[1])

MorseEntries ==
  LET lit  == [i \in 1..Len(MorseLiteral) |-> S(MorseLiteral[i][1])]
      idx  == {k \in DOMAIN MORSE : IsIndexKey(k)}
      nth(n) == CHOOSE k \in idx : Cardinality({j \in idx : j[1] < k[1]}) = n - 1
      rest == Without(lit, idx)
      keys == [n \in 1..Cardinality(idx) |-> nth(n)] \o rest
  IN [i \in 1..Len(keys) |-> <<keys[i], MORSE[keys[i]]>>]

\* The inverse built without swapping key and value.
REVMORSE_Unswapped == ObjectOf(MorseEntries)

REVMORSE == ObjectOf([i \in 1..Len(MorseEntries) |-> <<MorseEntries[i][2], MorseEntries[i][1]>>])

\* Both tables are ordinary objects, so a property that is not their own is
\* looked up on Object.prototype.  A looked-up value is [type, val]; val is
\* the string itself, or what ToString gives for a function or an object.
Undefined == [type |-> "undefined", val |-> <<>>]

StringValue(v) == [type |-> "string", val |-> v]

ObjectPrototypeMethods ==
  {"constructor", "hasOwnProperty", "isPrototypeOf", "propertyIsEnumerable",
   "toLocaleString", "toString", "valueOf"}

NativeFunctionText(name) == S("function ") \o name \o S("() { [native code] }")

ObjectPrototypeGet(key) ==
  IF key = S("__proto__") THEN [type |-> "object", val |-> S("[object Object]")]
  ELSE IF key = S("constructor") THEN [type |-> "function", val |-> NativeFunctionText(S("Object"))]
  ELSE IF \E m \in ObjectPrototypeMethods : key = S(m) THEN [type |-> "function", val |-> NativeFunctionText(key)]
  ELSE Undefined

Get(obj, key) == IF key \in DOMAIN obj THEN StringValue(obj[key]) ELSE ObjectPrototypeGet(key)

\* ToBoolean: undefined and the empty string are falsy.
Truthy(v) == v.type \in {"function", "object"} \/ (v.type = "string" /\ Len(v.val) > 0)

(***************************************************************************)
(* Morse transcoder.                                                       *)
(***************************************************************************)
\* toMorse without its filter: a dropped character leaves an empty piece
\* between two letter separators.
toMorseUnfiltered(text, letterSep, wordSep, keepUnknown) ==
  LET words == SplitOnString(ToUpperCase(text), S(" "))
      signal(ch) == LET code == Get(MORSE, ch)
                    IN IF ~Truthy(code) THEN (IF keepUnknown THEN ch ELSE <<>>) ELSE code.val
      encode(word) == LET chs == Spread(word)
                      IN Join([i \in 1..Len(chs) |-> signal(chs[i])], letterSep)
  IN Join([w \in 1..Len(words) |-> encode(words[w])], wordSep)

\* The body of toMorse, the object that the module-level name MORSE is
\* bound to at the time of the call given as morse.
toMorseOf(morse, text, letterSep, wordSep, keepUnknown) ==
  LET words == SplitOnString(ToUpperCase(text), S(" "))
      signal(ch) == LET code == Get(morse, ch)
                    IN IF ~Truthy(code) THEN (IF keepUnknown THEN ch ELSE <<>>) ELSE code.val
      encode(word) == LET chs == Spread(word)
                      IN Join(NonEmpty([i \in 1..Len(chs) |-> signal(chs[i])]), letterSep)
  IN Join([w \in 1..Len(words) |-> encode(words[w])], wordSep)

toMorse(text, letterSep, wordSep, keepUnknown) ==
  toMorseOf(MORSE, text, letterSep, wordSep, keepUnknown)

\* normalizePunctuation: dash-like to '-', dot-like to '.', zero-width removed, trimmed.
normalizePunctuation(s) ==
  LET dashed == [i \in 1..Len(s) |-> IF s[i] \in {8211, 8212, 8722} THEN Ord("-") ELSE s[i]]
      dotted == [i \in 1..Len(s) |-> IF dashed[i] \in {183, 8226, 8729} THEN Ord(".") ELSE dashed[i]]
  IN Trim(Without(dotted, {8203, 8204, 8205, 65279}))

\* esc without its replacement: the separator reaches the pattern as typed.
escNone(s) == s

\* esc with a character class that lacks the backslash itself.
escExceptBackslash(s) ==
  Concat([i \in 1..Len(s) |->
            IF s[i] \in SyntaxChars \ {Ord("\\")} THEN <<Ord("\\"), s[i]>> ELSE <<s[i]>>])

\* esc: a backslash before every character of [.*+?^${}()|[\]\\].
esc(s) ==
  Concat([i \in 1..Len(s) |-> IF s[i] \in SyntaxChars THEN <<Ord("\\"), s[i]>> ELSE <<s[i]>>])

\* The unknown-token placeholder U+FFFD.
Placeholder == <<65533>>

\* fromMorse with a word splitter that lacks its third alternative, the
\* run of three or more white-space characters.
fromMorseNoGap(code, letterSep, wordSep, strict) ==
  LET cleaned == normalizePunctuation(code)
      wsep == IF Len(wordSep) > 0 THEN esc(wordSep) ELSE <<>>
      lsep == IF Len(letterSep) > 0 THEN esc(letterSep) ELSE <<>>
      alternatives == NonEmpty(<< IF Len(wsep) > 0 THEN S("(?:") \o wsep \o S(")") ELSE <<>>,
                                  S("(?:\\s*/\\s*)") >>)
      wordSplitter == NewRegExp(Join(alternatives, S("|")))
      letterSplitter == NewRegExp(IF Len(lsep) > 0 THEN lsep ELSE S("\\s+"))
      words == NonEmpty(RegExpSplit(wordSplitter.val, cleaned))
      decode(sym) == LET t == Get(REVMORSE, sym)
                     IN IF ~Truthy(t) THEN (IF strict THEN Placeholder ELSE <<>>) ELSE t.val
      decodeWord(w) == LET syms == NonEmpty(RegExpSplit(letterSplitter.val, w))
                       IN Concat([i \in 1..Len(syms) |-> decode(syms[i])])
  IN IF wordSplitter.kind = "throw" THEN wordSplitter
     ELSE IF letterSplitter.kind = "throw" THEN letterSplitter
     ELSE Return(Join([w \in 1..Len(words) |-> decodeWord(words[w])], S(" ")))

\* The body of fromMorse, the object that the module-level name REVMORSE
\* is bound to at the time of the call given as revmorse.
fromMorseOf(revmorse, code, letterSep, wordSep, strict) ==
  LET cleaned == normalizePunctuation(code)
      wsep == IF Len(wordSep) > 0 THEN esc(wordSep) ELSE <<>>
      lsep == IF Len(letterSep) > 0 THEN esc(letterSep) ELSE <<>>
      alternatives == NonEmpty(<< IF Len(wsep) > 0 THEN S("(?:") \o wsep \o S(")") ELSE <<>>,
                                  S("(?:\\s*/\\s*)"), S("(?:\\s{3,})") >>)
      wordSplitter == NewRegExp(Join(alternatives, S("|")))
      letterSplitter == NewRegExp(IF Len(lsep) > 0 THEN lsep ELSE S("\\s+"))
      words == NonEmpty(RegExpSplit(wordSplitter.val, cleaned))
      decode(sym) == LET t == Get(revmorse, sym)
                     IN IF ~Truthy(t) THEN (IF strict THEN Placeholder ELSE <<>>) ELSE t.val
      decodeWord(w) == LET syms == NonEmpty(RegExpSplit(letterSplitter.val, w))
                       IN Concat([i \in 1..Len(syms) |-> decode(syms[i])])
  IN IF wordSplitter.kind = "throw" THEN wordSplitter
     ELSE IF letterSplitter.kind = "throw" THEN letterSplitter
     ELSE Return(Join([w \in 1..Len(words) |-> decodeWord(words[w])], S(" ")))

fromMorse(code, letterSep, wordSep, strict) ==
  fromMorseOf(REVMORSE, code, letterSep, wordSep, strict)

(***************************************************************************)
(* Code points, UTF-8 and numerals.                                        *)
(***************************************************************************)
\* ch.codePointAt(0) for one element of Spread.
CodePointAt0(ch) ==
  IF Len(ch) = 2 THEN 65536 + (ch[1] - 55296) * 1024 + (ch[2] - 56320) ELSE ch[1]

\* The largest code point, 0x10FFFF.
MaxCodePoint == 1114111

\* String.fromCharCode(n): the code unit n modulo 2^16.
FromCharCode(n) == <<n % 65536>>

\* String.fromCodePoint(n) for an integer n in 0..MaxCodePoint.
FromCodePoint(n) ==
  IF n <= 65535 THEN <<n>>
  ELSE <<55296 + ((n - 65536) \div 1024), 56320 + ((n - 65536) % 1024)>>

\* Number.prototype.toString(radix) of a non-negative integer, lower case.
DigitChar(d) == IF d < 10 THEN 48 + d ELSE 97 + (d - 10)

RECURSIVE ToRadix(_, _)
ToRadix(n, radix) ==
  IF n < radix THEN <<DigitChar(n)>>
  ELSE Append(ToRadix(n \div radix, radix), DigitChar(n % radix))

\* String.prototype.padStart(targetLength, "0").
PadStart0(s, targetLength) ==
  [i \in 1..(targetLength - Len(s)) |-> Ord("0")] \o s

\* Math.floor in the place of Math.ceil.
FloorDiv(a, b) == a \div b

\* Math.ceil(a / b) for a >= 0, b > 0.
CeilDiv(a, b) == (a + b - 1) \div b

\* parseInt(token, 2) of a non-empty token of binary digits.  Every value
\* above MaxCodePoint is treated alike by the caller, so a numeral of more
\* significant digits than MaxCodePoint has is reported as MaxCodePoint + 1.
RECURSIVE BinaryValue(_)
BinaryValue(digits) ==
  IF Len(digits) = 0 THEN 0
  ELSE 2 * BinaryValue(SubSeq(digits, 1, Len(digits) - 1)) + (digits[Len(digits)] - 48)

ParseBinary(token) ==
  LET ones == {i \in 1..Len(token) : token[i] = Ord("1")}
      significant == IF ones = {} THEN <<>> ELSE SubSeq(token, Least(ones), Len(token))
  IN IF Len(significant) > Len(ToRadix(MaxCodePoint, 2)) THEN MaxCodePoint + 1
     ELSE BinaryValue(significant)

\* new TextEncoder().encode(text): UTF-8 of the code points, a lone
\* surrogate encoded as U+FFFD.
UTF8OfCodePoint(n) ==
  LET cp == IF n >= 55296 /\ n <= 57343 THEN 65533 ELSE n
  IN IF cp < 128 THEN <<cp>>
     ELSE IF cp < 2048 THEN <<192 + (cp \div 64), 128 + (cp % 64)>>
     ELSE IF cp < 65536 THEN <<224 + (cp \div 4096), 128 + ((cp \div 64) % 64), 128 + (cp % 64)>>
     ELSE <<240 + (cp \div 262144), 128 + ((cp \div 4096) % 64), 128 + ((cp \div 64) % 64), 128 + (cp % 64)>>

TextEncode(text) ==
  LET chs == Spread(text)
  IN Concat([i \in 1..Len(chs) |-> UTF8OfCodePoint(CodePointAt0(chs[i]))])

\* new TextDecoder().decode(bytes): the UTF-8 decoder of the Encoding
\* standard in its default, non-fatal mode: every ill-formed sequence
\* becomes U+FFFD, nothing is thrown, and a leading byte order mark
\* EF BB BF is dropped.
RECURSIVE UTF8Decode(_, _, _, _, _, _, _)
UTF8Decode(bytes, i, needed, seen, cp, lower, upper) ==
  IF i > Len(bytes) THEN (IF needed # 0 THEN <<65533>> ELSE <<>>)
  ELSE LET b == bytes[i]
       IN IF needed = 0 THEN
            IF b <= 127 THEN <<b>> \o UTF8Decode(bytes, i + 1, 0, 0, 0, 128, 191)
            ELSE IF b >= 194 /\ b <= 223 THEN UTF8Decode(bytes, i + 1, 1, 0, b % 32, 128, 191)
            ELSE IF b >= 224 /\ b <= 239 THEN
              UTF8Decode(bytes, i + 1, 2, 0, b % 16, IF b = 224 THEN 160 ELSE 128, IF b = 237 THEN 159 ELSE 191)
            ELSE IF b >= 240 /\ b <= 244 THEN
              UTF8Decode(bytes, i + 1, 3, 0, b % 8, IF b = 240 THEN 144 ELSE 128, IF b = 244 THEN 143 ELSE 191)
            ELSE <<65533>> \o UTF8Decode(bytes, i + 1, 0, 0, 0, 128, 191)
          ELSE IF b < lower \/ b > upper THEN
            <<65533>> \o UTF8Decode(bytes, i, 0, 0, 0, 128, 191)
          ELSE IF seen + 1 = needed THEN
            FromCodePoint(cp * 64 + (b % 64)) \o UTF8Decode(bytes, i + 1, 0, 0, 0, 128, 191)
          ELSE UTF8Decode(bytes, i + 1, needed, seen + 1, cp * 64 + (b % 64), 128, 191)

TextDecode(bytes) ==
  LET hasBOM == Len(bytes) >= 3 /\ SubSeq(bytes, 1, 3) = <<239, 187, 191>>
  IN UTF8Decode(IF hasBOM THEN SubSeq(bytes, 4, Len(bytes)) ELSE bytes, 1, 0, 0, 0, 128, 191)

(***************************************************************************)
(* Byte-radix transcoder.                                                  *)
(***************************************************************************)
textToBinary(text, groupSize, delimiter, upper) ==
  LET chs == Spread(text)
      group(ch) == LET bin == ToRadix(CodePointAt0(ch), 2)
                   IN IF groupSize > 0 THEN PadStart0(bin, CeilDiv(Len(bin), groupSize) * groupSize)
                      ELSE bin
      out == Join([i \in 1..Len(chs) |-> group(chs[i])], delimiter)
  IN IF upper THEN ToUpperCase(out) ELSE out

InvalidBinarySequence == S("Invalid binary sequence")

\* /\s+/g replaced by " ": every maximal run of white space becomes one space.
CollapseWhiteSpace(s) ==
  Concat([i \in 1..Len(s) |->
            IF ~IsWhiteSpace(s[i]) THEN <<s[i]>>
            ELSE IF i > 1 /\ IsWhiteSpace(s[i - 1]) THEN <<>>
            ELSE <<Ord(" ")>>])

\* binaryToText without the replacement of the characters outside [01\s]:
\* parseInt then yields NaN for a token that starts with such a character
\* and String.fromCodePoint(NaN) throws into the catch.
binaryToTextStrict(binary) ==
  LET cleaned == CollapseWhiteSpace(Trim(binary))
      bytes == NonEmpty(SplitOnString(cleaned, S(" ")))
      bits(tok) == LET bad == {i \in 1..Len(tok) : tok[i] \notin {Ord("0"), Ord("1")}}
                   IN IF bad = {} THEN tok ELSE SubSeq(tok, 1, Least(bad) - 1)
      values == [i \in 1..Len(bytes) |-> IF Len(bits(bytes[i])) = 0 THEN MaxCodePoint + 1
                                          ELSE ParseBinary(bits(bytes[i]))]
  IN IF Len(cleaned) = 0 THEN <<>>
     ELSE IF \E i \in 1..Len(values) : values[i] > MaxCodePoint THEN InvalidBinarySequence
     ELSE Concat([i \in 1..Len(values) |-> FromCodePoint(values[i])])

binaryToText(binary) ==
  LET trimmed == Trim(binary)
      spaced == [i \in 1..Len(trimmed) |->
                   IF trimmed[i] \in {Ord("0"), Ord("1")} \/ IsWhiteSpace(trimmed[i])
                   THEN trimmed[i] ELSE Ord(" ")]
      cleaned == CollapseWhiteSpace(spaced)
      bytes == NonEmpty(SplitOnString(cleaned, S(" ")))
      values == [i \in 1..Len(bytes) |-> ParseBinary(bytes[i])]
  IN IF Len(cleaned) = 0 THEN <<>>
     ELSE IF \E i \in 1..Len(values) : values[i] > MaxCodePoint THEN InvalidBinarySequence
     ELSE Concat([i \in 1..Len(values) |-> FromCodePoint(values[i])])

\* A completion of textToHex: new RegExp(`${delimiter}+$`) can throw.
textToHex(text, delimiter, upper, bytesPerGroup) ==
  LET bytes == TextEncode(text)
      pair(b) == LET hex == PadStart0(ToRadix(b, 16), 2) IN IF upper THEN ToUpperCase(hex) ELSE hex
      pushed(i) == IF bytesPerGroup > 1 /\ i % bytesPerGroup = 0
                   THEN <<pair(bytes[i]), delimiter>> ELSE <<pair(bytes[i])>>
      parts == Concat([i \in 1..Len(bytes) |-> pushed(i)])
      trailing == NewRegExp(delimiter \o S("+$"))
  IN IF trailing.kind = "throw" THEN trailing
     ELSE Return(RegExpRemoveFirst(trailing.val, Join(parts, delimiter)))

InvalidHexLength == S("Invalid hex length")

\* The result of the catch around TextDecoder.decode.
InvalidHexSequence == S("Invalid hex sequence")

IsHexDigit(c) == IsDigit(c) \/ (c >= 65 /\ c <= 70) \/ (c >= 97 /\ c <= 102)

\* hex.replace(/[^0-9a-fA-F]/g, "")
OnlyHexDigits(s) ==
  Concat([i \in 1..Len(s) |-> IF IsHexDigit(s[i]) THEN <<s[i]>> ELSE <<>>])

HexValue(c) == IF IsDigit(c) THEN c - 48 ELSE IF c >= 97 THEN c - 87 ELSE c - 55

\* hexToText without its length test: a last single digit is ignored.
hexToTextAnyLength(hex) ==
  LET cleaned == OnlyHexDigits(hex)
      bytes == [i \in 1..(Len(cleaned) \div 2) |-> HexValue(cleaned[2 * i - 1]) * 16 + HexValue(cleaned[2 * i])]
  IN TextDecode(bytes)

hexToText(hex) ==
  LET cleaned == OnlyHexDigits(hex)
      bytes == [i \in 1..(Len(cleaned) \div 2) |-> HexValue(cleaned[2 * i - 1]) * 16 + HexValue(cleaned[2 * i])]
  IN IF Len(cleaned) % 2 # 0 THEN InvalidHexLength
     ELSE TextDecode(bytes)

(***************************************************************************)
(* Base64 transcoder: btoa(unescape(encodeURIComponent(text))) and         *)
(* decodeURIComponent(escape(atob(b64))), with the built-in functions as   *)
(* ECMAScript and the HTML standard define them.                           *)
(***************************************************************************)
\* "%XX": a percent sign and the two upper-case hex digits of the byte.
PercentOctet(b) == <<Ord("%")>> \o ToUpperCase(PadStart0(ToRadix(b, 16), 2))

PercentOctets(bytes) == Concat([i \in 1..Len(bytes) |-> PercentOctet(bytes[i])])

\* The characters encodeURIComponent leaves alone: A-Z a-z 0-9 - _ . ! ~ * ' ( )
UriUnreserved ==
  {c \in 0..127 : IsDigit(c) \/ (c >= 65 /\ c <= 90) \/ (c >= 97 /\ c <= 122)}
    \cup {Ord("-"), Ord("_"), Ord("."), Ord("!"), Ord("~"), Ord("*"), Ord("'"), Ord("("), Ord(")")}

IsLoneSurrogate(ch) == Len(ch) = 1 /\ (IsHighSurrogate(ch[1]) \/ IsLowSurrogate(ch[1]))

\* Encode of the code points chs: URIError on a lone surrogate, otherwise
\* each code point outside the unreserved set as the escapes of its UTF-8.
EncodeCodePoints(chs) ==
  IF \E i \in 1..Len(chs) : IsLoneSurrogate(chs[i]) THEN Throw("URIError")
  ELSE Return(Concat([i \in 1..Len(chs) |->
                        IF Len(chs[i]) = 1 /\ chs[i][1] \in UriUnreserved THEN chs[i]
                        ELSE PercentOctets(UTF8OfCodePoint(CodePointAt0(chs[i])))]))

encodeURIComponent(s) == EncodeCodePoints(Spread(s))

\* The value of the hex digits s[lo..hi], or -1 when one of them is not a
\* hex digit or the string ends before hi.
HexRun(s, lo, hi) ==
  IF hi > Len(s) \/ \E k \in lo..hi : ~IsHexDigit(s[k]) THEN -1
  ELSE IF hi - lo = 1 THEN HexValue(s[lo]) * 16 + HexValue(s[hi])
  ELSE HexValue(s[lo]) * 4096 + HexValue(s[lo + 1]) * 256 + HexValue(s[lo + 2]) * 16 + HexValue(s[hi])

\* unescape (ECMAScript B.2.1.2): %uXXXX and %XX become the code unit they
\* name; everything else is copied.
\* The position of the first '%' at or after k, Len(s) + 1 without one.
NextPercent(s, k) == Least({i \in k..Len(s) : s[i] = Ord("%")} \cup {Len(s) + 1})

\* The characters up to the next '%' are taken in one step.
RECURSIVE UnescapeFrom(_, _)
UnescapeFrom(s, k) ==
  IF k > Len(s) THEN <<>>
  ELSE IF s[k] # Ord("%")
       THEN SubSeq(s, k, NextPercent(s, k) - 1) \o UnescapeFrom(s, NextPercent(s, k))
  ELSE IF k + 5 <= Len(s) /\ s[k + 1] = Ord("u") /\ HexRun(s, k + 2, k + 5) >= 0
       THEN <<HexRun(s, k + 2, k + 5)>> \o UnescapeFrom(s, k + 6)
  ELSE IF HexRun(s, k + 1, k + 2) >= 0
       THEN <<HexRun(s, k + 1, k + 2)>> \o UnescapeFrom(s, k + 3)
  ELSE <<s[k]>> \o UnescapeFrom(s, k + 1)

unescape(s) == UnescapeFrom(s, 1)

\* The Base64 alphabet, value v at position v + 1.
Base64Alphabet == S("ABCDEFGHIJKLMNOPQRSTUVWXYZabcdefghijklmnopqrstuvwxyz0123456789+/")

Base64Char(v) == Base64Alphabet[v + 1]

\* The byte at position k of a binary string, 0 past its end.
ByteAt(s, k) == IF k <= Len(s) THEN s[k] ELSE 0

\* The four characters of the group of bytes s[k], s[k+1], s[k+2].
Base64Group(s, k) ==
  << Base64Char(s[k] \div 4),
     Base64Char((s[k] % 4) * 16 + (ByteAt(s, k + 1) \div 16)),
     IF k + 1 > Len(s) THEN Ord("=")
     ELSE Base64Char((s[k + 1] % 16) * 4 + (ByteAt(s, k + 2) \div 64)),
     IF k + 2 > Len(s) THEN Ord("=") ELSE Base64Char(s[k + 2] % 64) >>

\* btoa: InvalidCharacterError when a code unit is above 0xFF, otherwise
\* the Base64 of the code units taken as bytes, padded with '='.
btoa(s) ==
  IF \E i \in 1..Len(s) : s[i] > 255 THEN Throw("InvalidCharacterError")
  ELSE Return(Concat([g \in 1..CeilDiv(Len(s), 3) |-> Base64Group(s, 3 * g - 2)]))

\* The value of a character of the Base64 alphabet.
Base64Value(c) == CHOOSE v \in 0..63 : Base64Alphabet[v + 1] = c

\* The bytes of the characters d[k..], four characters for three bytes; a
\* last group of two or three characters for one or two bytes.
Base64Bytes(d, k) ==
  IF k + 3 <= Len(d)
  THEN << Base64Value(d[k]) * 4 + (Base64Value(d[k + 1]) \div 16),
          (Base64Value(d[k + 1]) % 16) * 16 + (Base64Value(d[k + 2]) \div 4),
          (Base64Value(d[k + 2]) % 4) * 64 + Base64Value(d[k + 3]) >>
  ELSE IF k + 2 <= Len(d)
  THEN << Base64Value(d[k]) * 4 + (Base64Value(d[k + 1]) \div 16),
          (Base64Value(d[k + 1]) % 16) * 16 + (Base64Value(d[k + 2]) \div 4) >>
  ELSE << Base64Value(d[k]) * 4 + (Base64Value(d[k + 1]) \div 16) >>

\* Forgiving-base64 decode, after the ASCII white space was removed: one or
\* two '=' at the end of a length that is a multiple of four are dropped.
Unpadded(d) ==
  IF Len(d) % 4 = 0 /\ Len(d) >= 2 /\ d[Len(d)] = Ord("=")
  THEN (IF d[Len(d) - 1] = Ord("=") THEN SubSeq(d, 1, Len(d) - 2) ELSE SubSeq(d, 1, Len(d) - 1))
  ELSE d

DecodeUnpadded(d) ==
  IF Len(d) % 4 = 1 \/ \E i \in 1..Len(d) : d[i] \notin {Base64Alphabet[v] : v \in 1..64}
  THEN Throw("InvalidCharacterError")
  ELSE Return(Concat([g \in 1..CeilDiv(Len(d), 4) |-> Base64Bytes(d, 4 * g - 3)]))

\* atob: the decoded bytes as code units, or InvalidCharacterError.
atob(s) == DecodeUnpadded(Unpadded(Without(s, {9, 10, 12, 13, 32})))

\* escape left out: the bytes reach decodeURIComponent as they are.
escapeNone(s) == s

\* The characters escape leaves alone: A-Z a-z 0-9 @ * _ + - . /
EscapeUnreserved ==
  {c \in 0..127 : IsDigit(c) \/ (c >= 65 /\ c <= 90) \/ (c >= 97 /\ c <= 122)}
    \cup {Ord("@"), Ord("*"), Ord("_"), Ord("+"), Ord("-"), Ord("."), Ord("/")}

\* escape (ECMAScript B.2.1.1): %XX below 0x100 and %uXXXX above.
escape(s) ==
  Concat([i \in 1..Len(s) |->
            IF s[i] \in EscapeUnreserved THEN <<s[i]>>
            ELSE IF s[i] < 256 THEN PercentOctet(s[i])
            ELSE <<Ord("%"), Ord("u")>> \o ToUpperCase(PadStart0(ToRadix(s[i], 16), 4))])

\* The length of the UTF-8 sequence a leading byte announces; 0 for a byte
\* that cannot lead (10xxxxxx, or 11111xxx).
SequenceLength(b) ==
  IF b < 128 THEN 1
  ELSE IF b >= 192 /\ b <= 223 THEN 2
  ELSE IF b >= 224 /\ b <= 239 THEN 3
  ELSE IF b >= 240 /\ b <= 247 THEN 4
  ELSE 0

\* The code point the bits of the octets spell, continuation bytes taken
\* modulo 64.
OctetsValue(octets) ==
  IF Len(octets) = 1 THEN octets[1]
  ELSE IF Len(octets) = 2 THEN (octets[1] % 32) * 64 + (octets[2] % 64)
  ELSE IF Len(octets) = 3 THEN (octets[1] % 16) * 4096 + (octets[2] % 64) * 64 + (octets[3] % 64)
  ELSE (octets[1] % 8) * 262144 + (octets[2] % 64) * 4096 + (octets[3] % 64) * 64 + (octets[4] % 64)

\* Octets are the UTF-8 of a code point: not overlong, no surrogate, at
\* most MaxCodePoint.
IsUTF8OfCodePoint(octets) ==
  /\ OctetsValue(octets) <= MaxCodePoint
  /\ UTF8OfCodePoint(OctetsValue(octets)) = octets

\* The bytes of the n escapes %XX that start at k; -1 for an escape that
\* is not there.
EscapedOctets(s, k, n) == [j \in 1..n |->
  IF k + 3 * j - 1 <= Len(s) /\ s[k + 3 * j - 3] = Ord("%") THEN HexRun(s, k + 3 * j - 2, k + 3 * j - 1)
  ELSE -1]

\* x in front of the rest of a decode, unless the rest threw.
DecodedBefore(x, rest) == IF rest.kind = "throw" THEN rest ELSE Return(x \o rest.val)

\* decodeURIComponent (ECMAScript Decode with an empty reserved set):
\* URIError for a '%' without two hex digits, for a byte that cannot lead
\* a sequence, for a missing or wrong continuation escape and for octets
\* that are not the UTF-8 of a code point.
RECURSIVE DecodeFrom(_, _)
DecodeEscape(s, k, b) ==
  IF b < 0 \/ SequenceLength(b) = 0 THEN Throw("URIError")
  ELSE IF \E j \in 2..SequenceLength(b) :
            EscapedOctets(s, k, SequenceLength(b))[j] < 128 \/ EscapedOctets(s, k, SequenceLength(b))[j] > 191
       THEN Throw("URIError")
  ELSE IF ~IsUTF8OfCodePoint(EscapedOctets(s, k, SequenceLength(b))) THEN Throw("URIError")
  ELSE DecodedBefore(FromCodePoint(OctetsValue(EscapedOctets(s, k, SequenceLength(b)))),
                     DecodeFrom(s, k + 3 * SequenceLength(b)))

DecodeFrom(s, k) ==
  IF k > Len(s) THEN Return(<<>>)
  ELSE IF s[k] # Ord("%")
       THEN DecodedBefore(SubSeq(s, k, NextPercent(s, k) - 1), DecodeFrom(s, NextPercent(s, k)))
  ELSE DecodeEscape(s, k, HexRun(s, k + 1, k + 2))

decodeURIComponent(s) == DecodeFrom(s, 1)

EncodingError == S("Encoding error")

InvalidBase64 == S("Invalid Base64")

\* try { return f() } without its catch: the exception leaves the function.
Uncaught(completion, diagnostic) == completion

\* try { return f() } catch { return diagnostic }
Caught(completion, diagnostic) ==
  IF completion.kind = "throw" THEN Return(diagnostic) ELSE completion

\* btoa(unescape(...)) of the value of a completion, a throw passed on.
BtoaOf(completion) == IF completion.kind = "throw" THEN completion ELSE btoa(unescape(completion.val))

textToBase64(text) == Caught(BtoaOf(encodeURIComponent(text)), EncodingError)

DecodeOf(completion) ==
  IF completion.kind = "throw" THEN completion ELSE decodeURIComponent(escape(completion.val))

base64ToText(b64) == Caught(DecodeOf(atob(b64)), InvalidBase64)

(***************************************************************************)
(* Percent-encoding transcoder.                                            *)
(***************************************************************************)
\* A completion: urlEncode has no try around encodeURIComponent.
urlEncode(s) == encodeURIComponent(s)

InvalidURLEncoding == S("Invalid URL encoding")

urlDecode(s) == Caught(decodeURIComponent(s), InvalidURLEncoding)

(***************************************************************************)
(* ROT / Caesar.                                                           *)
(***************************************************************************)
\* The remainder operator of JavaScript: the sign of the dividend.
Remainder(n, d) == IF n >= 0 THEN n % d ELSE -((-n) % d)

\* wrap without its second "+ 26) % 26": a negative remainder stays negative.
wrapOnce(code, start, shift) == Remainder(code - start + shift, 26) + start

wrap(code, start, shift) == Remainder(Remainder(code - start + shift, 26) + 26, 26) + start

\* String.fromCharCode of a code in the range of the letters.
fromCharCode(code) == <<code % 65536>>

\* rotChar with the upper-case letters wrapped from "a" as well.
rotCharOneStart(ch, shift) ==
  IF ch[1] >= Ord("a") /\ ch[1] <= Ord("z") THEN fromCharCode(wrap(ch[1], Ord("a"), shift))
  ELSE IF ch[1] >= Ord("A") /\ ch[1] <= Ord("Z") THEN fromCharCode(wrap(ch[1], Ord("a"), shift))
  ELSE ch

\* The character of one element of Spread: ch.charCodeAt(0) decides.
rotChar(ch, shift) ==
  IF ch[1] >= Ord("a") /\ ch[1] <= Ord("z") THEN fromCharCode(wrap(ch[1], Ord("a"), shift))
  ELSE IF ch[1] >= Ord("A") /\ ch[1] <= Ord("Z") THEN fromCharCode(wrap(ch[1], Ord("A"), shift))
  ELSE ch

RotOf(chs, shift) == Concat([i \in 1..Len(chs) |-> rotChar(chs[i], shift)])

rot(text, shift) == RotOf(Spread(text), shift)

(***************************************************************************)
(* Unicode inspector.                                                      *)
(***************************************************************************)
\* The records without padStart(4, "0") in the label.
InspectOfUnpadded(chs) ==
  [i \in 1..Len(chs) |->
     [ch |-> chs[i], dec |-> CodePointAt0(chs[i]),
      hex |-> S("U+") \o ToUpperCase(ToRadix(CodePointAt0(chs[i]), 16))]]

InspectOf(chs) ==
  [i \in 1..Len(chs) |->
     [ch |-> chs[i], dec |-> CodePointAt0(chs[i]),
      hex |-> S("U+") \o PadStart0(ToUpperCase(ToRadix(CodePointAt0(chs[i]), 16)), 4)]]

inspectUnicode(s) == InspectOf(Spread(s))

(***************************************************************************)
(* The inputs the model draws.                                             *)
(***************************************************************************)
MaxTextLen == 3

MaxCodeLen == 3

MaxBinaryLen == 4

MaxHexLen == 4

MaxBase64Len == 4

MaxUrlLen == 4

MaxRotLen == 2

\* Shifts run over -MaxShift..MaxShift: the slider's -25..25 and beyond.
MaxShift == 27

\* The calls followed after the earlier call that is compared with a
\* repetition of it.
MaxCallsBetween == 1

\* All strings of at most n code units over the alphabet.
RECURSIVE StringsUpTo(_, _)
StringsUpTo(alphabet, n) ==
  IF n = 0 THEN {<<>>}
  ELSE LET shorter == StringsUpTo(alphabet, n - 1)
       IN shorter \cup {Append(s, c) : s \in {t \in shorter : Len(t) = n - 1}, c \in alphabet}

\* U+1F600 as its surrogate pair.
GrinningFace == <<55357, 56832>>

\* Text typed into the Morse card: table characters, a lower-case letter
\* and a space; texts with a character outside the table; and the card's
\* initial text.
MorseTexts ==
  StringsUpTo({Ord("E"), Ord("A"), Ord("a"), Ord(" ")}, MaxTextLen)
    \cup {S("SOS help!"), S("~"), S("A~E"), S("~ a"), <<233, 55357, 56832>>}

LetterSeps == {S(" "), S("  "), S("   "), S("."), S("|")}

WordSeps == {S(" / "), S(""), S(" "), S("."), S("|")}

\* Morse typed into the decode box, with the card's initial value and the
\* examples of the guide.
MorseCodes ==
  StringsUpTo({Ord("."), Ord("-"), Ord(" "), Ord("x")}, MaxCodeLen)
    \cup {S("... --- ... / .... . .-.. .--. -.-.--"), S("-.-.-. garbage"),
          S("constructor"), S("__proto__ ."), S("-/.  /  -"), S(".-   -... |.")}

\* Text typed into the binary and hex card: NUL, ASCII, and the two halves
\* of a surrogate pair (so a character outside the BMP and lone surrogates).
ByteTexts ==
  StringsUpTo({0, Ord("H"), Ord("i"), 233, 55357, 56832}, MaxTextLen)
    \cup {S("Hi!!"), S("A")}

GroupSizes == {-1, 0, 3, 8}

BinaryDelimiters == {S(" "), S(""), S("0"), S(", "), S("b")}

BinaryInputs ==
  StringsUpTo({Ord("0"), Ord("1"), Ord(" "), Ord("2")}, MaxBinaryLen)
    \cup {S("01001000 01100101 01101100 01101100 01101111"),
          S("100001111111111111111"), S("100010000000000000000"), S("1 100010000000000000000"),
          S("1101100000000000"), S("1000001 1101111111111111")}

HexDelimiters == {S(" "), S(""), S("."), S("("), S(":"), S("A"), S(", ")}

BytesPerGroups == {1, 2, 3}

HexInputs ==
  StringsUpTo({Ord("4"), Ord("8"), Ord("C"), Ord("F"), Ord(" ")}, MaxHexLen)
    \cup {S("48 65 6C 6C 6F 2C 20 77 6F 72 6C 64 21"), S("ABC"), S("E2 82"), S("EF BB BF 48")}

\* Text typed into the Base64 box, with the card's initial text.
Base64Texts ==
  ByteTexts \cup {S("Hello"), S("The quick brown fox jumps over 13 lazy dogs.")}

\* Base64 typed into the decode box: alphabet characters, padding and a
\* space; the card's initial value btoa("Hello"); characters outside the
\* alphabet; bytes that are not UTF-8.
Base64Inputs ==
  StringsUpTo({Ord("S"), Ord("G"), Ord("/"), Ord("w"), Ord("="), Ord(" ")}, MaxBase64Len)
    \cup {S("SGVsbG8="), S("SGVsbG8"), S("w6k="), S("8J+YgA=="), S("SG!k"), S("Encoding error")}

\* Text typed into the URL box, with the card's initial text.
UrlTexts ==
  StringsUpTo({Ord("%"), Ord("a"), Ord(" "), 8364, 55357, 56832}, MaxTextLen)
    \cup {S("hello world"), S("https://codetranslators.com/?q=hello world")}

\* Percent-encoded text typed into the decode box.
UrlInputs ==
  StringsUpTo({Ord("%"), Ord("4"), Ord("1"), Ord("E"), Ord("z")}, MaxUrlLen)
    \cup {S("hello%20world"), S("%C3%A9"), S("%E2%82%AC"), S("%F0%9F%98%80"), S("%C0%80"),
          S("%ED%A0%80"), S("%E2%82"), S("%E2%82z"), S("%F8%80%80%80")}

\* Text typed into the ROT box: the ends of both alphabets, their
\* neighbours '@' and '{', a letter outside ASCII and the halves of a
\* surrogate pair; and the card's initial text.
RotTexts ==
  StringsUpTo({Ord("a"), Ord("z"), Ord("M"), Ord("Z"), Ord("@"), Ord("{"), 233, 55357, 56832}, MaxRotLen)
    \cup {S("Attack At Dawn")}

Shifts == (-MaxShift)..MaxShift

\* Text typed into the inspector, with the card's initial text "Hi" and
\* U+1F30A, U+1F680.
UniTexts ==
  ByteTexts \cup {S("Hi ") \o <<55356, 57098, 55357, 56960>>}

\* Separators typed into the two separator boxes that hold characters
\* of pattern syntax: each such character alone, and a few patterns.
SyntaxSeparators ==
  {<<c>> : c \in SyntaxChars}
    \cup {S(".*"), S("\\s"), S("[.-]"), S("(?:"), S("-|."), S(".{2}"), S("a+"), S("$^")}

\* Morse typed into the decode box for the separators l and w: signals
\* with the separators between them, the separators alone, and text
\* that the separators would match if they were read as patterns.
SeparatedCodes(l, w) ==
  {S(".-") \o l \o S("-...") \o w \o S("."),
   S(".") \o l \o l \o S("-") \o w \o w \o S("-"),
   l \o w, w \o S(" ") \o l,
   S(".- -... aa .."), S("--..--"), S("")}

\* Calls that the four cards of the page make as their boxes change:
\* for each function two or four calls that take different paths
\* through it.
SessionCalls ==
  {[fn |-> "toMorse", text |-> text, letterSep |-> S(" "), wordSep |-> S(" / "), keepUnknown |-> keepUnknown] :
     text \in {S("SOS help!"), S("~ a")}, keepUnknown \in BOOLEAN}
  \cup {[fn |-> "fromMorse", code |-> code, letterSep |-> S(" "), wordSep |-> S(" / "), strict |-> strict] :
           code \in {S("... --- ... / ."), S(".- x")}, strict \in BOOLEAN}
  \cup {[fn |-> "textToBinary", text |-> S("Hi"), groupSize |-> 8, delimiter |-> S(" "), upper |-> upper] :
           upper \in BOOLEAN}
  \cup {[fn |-> "binaryToText", binary |-> binary] : binary \in {S("01001000 01101001"), S("2")}}
  \cup {[fn |-> "textToHex", text |-> S("Hi"), delimiter |-> S(" "), upper |-> upper, bytesPerGroup |-> 1] :
           upper \in BOOLEAN}
  \cup {[fn |-> "hexToText", hex |-> hex] : hex \in {S("48 69"), S("ABC")}}
  \cup {[fn |-> "textToBase64", text |-> text] : text \in {S("Hello"), <<55357>>}}
  \cup {[fn |-> "base64ToText", b64 |-> b64] : b64 \in {S("SGVsbG8="), S("SG!k")}}
  \cup {[fn |-> "urlEncode", s |-> s] : s \in {S("hello world"), <<55357>>}}
  \cup {[fn |-> "urlDecode", s |-> s] : s \in {S("hello%20world"), S("%E2%82")}}
  \cup {[fn |-> "rot", text |-> S("Attack At Dawn"), shift |-> shift] : shift \in {13, -13}}
  \cup {[fn |-> "inspectUnicode", s |-> s] : s \in {S("Hi"), <<55357, 56832>>}}

(***************************************************************************)
(* State: the call a card has made (fn and its arguments), how it          *)
(* completed, and, when the input of a decoder was the output of an        *)
(* encoder, that encoding call; the two objects that the module-level      *)
(* names MORSE and REVMORSE are bound to; and one earlier call of the      *)
(* page with its completion and the number of calls made since.            *)
(***************************************************************************)
VARIABLES call, ret, from, tables, earlier

vars == <<call, ret, from, tables, earlier>>

NoCall == [fn |-> "none"]

Pending == [kind |-> "pending", val |-> <<>>]

NoEarlier == [call |-> NoCall, ret |-> Pending, since |-> 0]

Init ==
  /\ call = NoCall
  /\ ret = Pending
  /\ from = NoCall
  /\ tables = [MORSE |-> MORSE, REVMORSE |-> REVMORSE]
  /\ earlier = NoEarlier

\* How the call c completes, the module-level names MORSE and REVMORSE
\* bound to the objects of t: what the card's useMemo computes.
Result(t, c) ==
  IF c.fn = "toMorse" THEN Return(toMorseOf(t.MORSE, c.text, c.letterSep, c.wordSep, c.keepUnknown))
  ELSE IF c.fn = "fromMorse" THEN fromMorseOf(t.REVMORSE, c.code, c.letterSep, c.wordSep, c.strict)
  ELSE IF c.fn = "textToBinary" THEN Return(textToBinary(c.text, c.groupSize, c.delimiter, c.upper))
  ELSE IF c.fn = "binaryToText" THEN Return(binaryToText(c.binary))
  ELSE IF c.fn = "textToHex" THEN textToHex(c.text, c.delimiter, c.upper, c.bytesPerGroup)
  ELSE IF c.fn = "hexToText" THEN Return(hexToText(c.hex))
  ELSE IF c.fn = "textToBase64" THEN textToBase64(c.text)
  ELSE IF c.fn = "base64ToText" THEN base64ToText(c.b64)
  ELSE IF c.fn = "urlEncode" THEN urlEncode(c.s)
  ELSE IF c.fn = "urlDecode" THEN urlDecode(c.s)
  ELSE IF c.fn = "rot" THEN Return(rot(c.text, c.shift))
  ELSE Return(inspectUnicode(c.s))

\* The calls counted since the earlier call.
Since(e) == IF e.call = NoCall THEN e ELSE [e EXCEPT !.since = @ + 1]

\* A page whose fromMorse keeps what it decoded: the input is stored in
\* REVMORSE with its decoding.
SessionCallCaching ==
  /\ earlier.since <= MaxCallsBetween
  /\ \E c \in SessionCalls, keep \in (IF earlier.call = NoCall THEN BOOLEAN ELSE {FALSE}) :
       /\ call' = c
       /\ ret' = Result(tables, c)
       /\ tables' = IF c.fn = "fromMorse"
                     THEN [tables EXCEPT !.REVMORSE =
                             [k \in DOMAIN @ \cup {c.code} |-> IF k = c.code THEN Result(tables, c).val ELSE @[k]]]
                     ELSE tables
       /\ earlier' = IF keep /\ earlier.call = NoCall
                      THEN [call |-> c, ret |-> Result(tables, c), since |-> 0]
                      ELSE Since(earlier)
  /\ UNCHANGED from

\* Home: the four cards are mounted together, and a card calls its
\* function again whenever one of its boxes changes, so the calls of the
\* page follow each other in any order.  No function assigns to MORSE or
\* REVMORSE or to any other name outside itself.  One call is kept, with
\* its completion, to be compared with a later call.
SessionCall ==
  /\ earlier.since <= MaxCallsBetween
  /\ \E c \in SessionCalls, keep \in (IF earlier.call = NoCall THEN BOOLEAN ELSE {FALSE}) :
       /\ call' = c
       /\ ret' = Result(tables, c)
       /\ earlier' = IF keep /\ earlier.call = NoCall
                      THEN [call |-> c, ret |-> Result(tables, c), since |-> 0]
                      ELSE Since(earlier)
  /\ UNCHANGED <<from, tables>>

\* MorseCard: encoded = toMorse(input, letterSep, wordSep, keepUnknown)
ToMorse ==
  /\ call.fn = "none"
  /\ \E text \in MorseTexts, letterSep \in LetterSeps, wordSep \in WordSeps, keepUnknown \in BOOLEAN :
       /\ call' = [fn |-> "toMorse", text |-> text, letterSep |-> letterSep,
                   wordSep |-> wordSep, keepUnknown |-> keepUnknown]
       /\ ret' = Return(toMorse(text, letterSep, wordSep, keepUnknown))
  /\ UNCHANGED <<from, tables, earlier>>

\* MorseCard: decoded = fromMorse(decodeIn, letterSep, wordSep, strict)
FromMorse ==
  /\ call.fn = "none"
  /\ \E code \in MorseCodes, letterSep \in LetterSeps, wordSep \in WordSeps, strict \in BOOLEAN :
       /\ call' = [fn |-> "fromMorse", code |-> code, letterSep |-> letterSep,
                   wordSep |-> wordSep, strict |-> strict]
       /\ ret' = fromMorse(code, letterSep, wordSep, strict)
  /\ UNCHANGED <<from, tables, earlier>>

\* The Morse output pasted into the decode box, the separators unchanged.
FromMorseOfEncoded ==
  /\ call.fn = "toMorse"
  /\ ret.kind = "return"
  /\ \E strict \in BOOLEAN :
       /\ call' = [fn |-> "fromMorse", code |-> ret.val, letterSep |-> call.letterSep,
                   wordSep |-> call.wordSep, strict |-> strict]
       /\ ret' = fromMorse(ret.val, call.letterSep, call.wordSep, strict)
  /\ from' = call
  /\ UNCHANGED <<tables, earlier>>

\* BinaryHexCard: binOut = textToBinary(input, groupSize, delimiter, upper)
TextToBinary ==
  /\ call.fn = "none"
  /\ \E text \in ByteTexts, groupSize \in GroupSizes, delimiter \in BinaryDelimiters, upper \in BOOLEAN :
       /\ call' = [fn |-> "textToBinary", text |-> text, groupSize |-> groupSize,
                   delimiter |-> delimiter, upper |-> upper]
       /\ ret' = Return(textToBinary(text, groupSize, delimiter, upper))
  /\ UNCHANGED <<from, tables, earlier>>

\* BinaryHexCard: binDecoded = binaryToText(binIn)
BinaryToText ==
  /\ call.fn = "none"
  /\ \E binary \in BinaryInputs :
       /\ call' = [fn |-> "binaryToText", binary |-> binary]
       /\ ret' = Return(binaryToText(binary))
  /\ UNCHANGED <<from, tables, earlier>>

\* The binary output pasted into the decode box.
BinaryToTextOfEncoded ==
  /\ call.fn = "textToBinary"
  /\ ret.kind = "return"
  /\ call' = [fn |-> "binaryToText", binary |-> ret.val]
  /\ ret' = Return(binaryToText(ret.val))
  /\ from' = call
  /\ UNCHANGED <<tables, earlier>>

\* BinaryHexCard: hexOut = textToHex(input, hexDelim, hexUpper, hexGroup)
TextToHex ==
  /\ call.fn = "none"
  /\ \E text \in ByteTexts, delimiter \in HexDelimiters, upper \in BOOLEAN, bytesPerGroup \in BytesPerGroups :
       /\ call' = [fn |-> "textToHex", text |-> text, delimiter |-> delimiter,
                   upper |-> upper, bytesPerGroup |-> bytesPerGroup]
       /\ ret' = textToHex(text, delimiter, upper, bytesPerGroup)
  /\ UNCHANGED <<from, tables, earlier>>

\* BinaryHexCard: hexDecoded = hexToText(hexIn)
HexToText ==
  /\ call.fn = "none"
  /\ \E hex \in HexInputs :
       /\ call' = [fn |-> "hexToText", hex |-> hex]
       /\ ret' = Return(hexToText(hex))
  /\ UNCHANGED <<from, tables, earlier>>

\* The hex output pasted into the decode box.
HexToTextOfEncoded ==
  /\ call.fn = "textToHex"
  /\ ret.kind = "return"
  /\ call' = [fn |-> "hexToText", hex |-> ret.val]
  /\ ret' = Return(hexToText(ret.val))
  /\ from' = call
  /\ UNCHANGED <<tables, earlier>>

\* Base64UrlCard: b64 = textToBase64(input)
TextToBase64 ==
  /\ call.fn = "none"
  /\ \E text \in Base64Texts :
       /\ call' = [fn |-> "textToBase64", text |-> text]
       /\ ret' = textToBase64(text)
  /\ UNCHANGED <<from, tables, earlier>>

\* Base64UrlCard: b64Out = base64ToText(b64In)
Base64ToText ==
  /\ call.fn = "none"
  /\ \E b64 \in Base64Inputs :
       /\ call' = [fn |-> "base64ToText", b64 |-> b64]
       /\ ret' = base64ToText(b64)
  /\ UNCHANGED <<from, tables, earlier>>

\* The Base64 output pasted into the decode box.
Base64ToTextOfEncoded ==
  /\ call.fn = "textToBase64"
  /\ ret.kind = "return"
  /\ call' = [fn |-> "base64ToText", b64 |-> ret.val]
  /\ ret' = base64ToText(ret.val)
  /\ from' = call
  /\ UNCHANGED <<tables, earlier>>

\* Base64UrlCard: urlEnc = urlEncode(urlIn)
UrlEncode ==
  /\ call.fn = "none"
  /\ \E s \in UrlTexts :
       /\ call' = [fn |-> "urlEncode", s |-> s]
       /\ ret' = urlEncode(s)
  /\ UNCHANGED <<from, tables, earlier>>

\* Base64UrlCard: urlDec = urlDecode(encIn)
UrlDecode ==
  /\ call.fn = "none"
  /\ \E s \in UrlInputs :
       /\ call' = [fn |-> "urlDecode", s |-> s]
       /\ ret' = urlDecode(s)
  /\ UNCHANGED <<from, tables, earlier>>

\* The percent-encoded output pasted into the decode box.
UrlDecodeOfEncoded ==
  /\ call.fn = "urlEncode"
  /\ ret.kind = "return"
  /\ call' = [fn |-> "urlDecode", s |-> ret.val]
  /\ ret' = urlDecode(ret.val)
  /\ from' = call
  /\ UNCHANGED <<tables, earlier>>

\* RotUnicodeCard: rotOut = rot(input, shift)
Rot ==
  /\ call.fn = "none"
  /\ \E text \in RotTexts, shift \in Shifts :
       /\ call' = [fn |-> "rot", text |-> text, shift |-> shift]
       /\ ret' = Return(rot(text, shift))
  /\ UNCHANGED <<from, tables, earlier>>

\* The ROT output typed back into the box, the shift either left as it
\* was or set to 26 - (shift mod 26).
RotOfRotated ==
  /\ call.fn = "rot"
  /\ from.fn = "none"
  /\ \E shift \in {call.shift, 26 - (call.shift % 26)} :
       /\ call' = [fn |-> "rot", text |-> ret.val, shift |-> shift]
       /\ ret' = Return(rot(ret.val, shift))
  /\ from' = call
  /\ UNCHANGED <<tables, earlier>>

\* RotUnicodeCard: uni = inspectUnicode(uniIn)
InspectUnicode ==
  /\ call.fn = "none"
  /\ \E s \in UniTexts :
       /\ call' = [fn |-> "inspectUnicode", s |-> s]
       /\ ret' = Return(inspectUnicode(s))
  /\ UNCHANGED <<from, tables, earlier>>

\* MorseCard: decoded = fromMorse(decodeIn, letterSep, wordSep, strict),
\* the separator boxes holding characters of pattern syntax.
FromMorseSeparators ==
  /\ call.fn = "none"
  /\ \E letterSep \in SyntaxSeparators, wordSep \in SyntaxSeparators, strict \in BOOLEAN :
       \E code \in SeparatedCodes(letterSep, wordSep) :
         /\ call' = [fn |-> "fromMorse", code |-> code, letterSep |-> letterSep,
                     wordSep |-> wordSep, strict |-> strict]
         /\ ret' = fromMorse(code, letterSep, wordSep, strict)
  /\ UNCHANGED <<from, tables, earlier>>

NextMorse == ToMorse \/ FromMorse \/ FromMorseOfEncoded

NextBinary == TextToBinary \/ BinaryToText \/ BinaryToTextOfEncoded

NextHex == TextToHex \/ HexToText \/ HexToTextOfEncoded

NextBase64Url ==
  TextToBase64 \/ Base64ToText \/ Base64ToTextOfEncoded \/ UrlEncode \/ UrlDecode \/ UrlDecodeOfEncoded

NextRotUnicode == Rot \/ RotOfRotated \/ InspectUnicode

\* The decode boxes of the three cards, typed into directly.
NextDecode == FromMorse \/ BinaryToText \/ HexToText \/ Base64ToText \/ UrlDecode

SpecMorse == Init /\ [][NextMorse]_vars

SpecBinary == Init /\ [][NextBinary]_vars

SpecHex == Init /\ [][NextHex]_vars

SpecBase64Url == Init /\ [][NextBase64Url]_vars

SpecRotUnicode == Init /\ [][NextRotUnicode]_vars

SpecDecode == Init /\ [][NextDecode]_vars

SpecSeparators == Init /\ [][FromMorseSeparators]_vars

SpecSession == Init /\ [][SessionCall]_vars

(***************************************************************************)
(* Properties.                                                             *)
(***************************************************************************)
\* The characters of the Symbol Table.
TableChars == {k[1] : k \in DOMAIN MORSE}

AllIn(s, set) == \A i \in 1..Len(s) : s[i] \in set

NoneIn(s, set) == \A i \in 1..Len(s) : s[i] \notin set

\* sub occurs in s as a contiguous substring.
Occurs(sub, s) ==
  \E i \in 1..(Len(s) - Len(sub) + 1) : SubSeq(s, i, i + Len(sub) - 1) = sub

\* A decode of the output of toMorse with the same separators, non-strict,
\* nothing kept by keepUnknown, the text made of Symbol Table characters.
MorseRoundTripCall ==
  /\ call.fn = "fromMorse"
  /\ from.fn = "toMorse"
  /\ ~from.keepUnknown
  /\ ~call.strict
  /\ AllIn(from.text, TableChars)

\* The characters normalizePunctuation rewrites or removes.
NormalizedChars == {8211, 8212, 8722, 183, 8226, 8729, 8203, 8204, 8205, 65279}

\* A letter separator that cannot be mistaken for a signal or a word boundary.
UnambiguousLetterSep(L) ==
  /\ Len(L) > 0
  /\ NoneIn(L, {Ord("."), Ord("-"), Ord("/")} \cup NormalizedChars)
  /\ ~\E i \in 1..(Len(L) - 2) : \A j \in i..(i + 2) : IsWhiteSpace(L[j])

\* A word separator that cannot match inside the encoding of one word.
UnambiguousWordSep(W, L) ==
  \/ Len(W) = 0
  \/ (NoneIn(W, {Ord("."), Ord("-")}) /\ ~Occurs(W, L))

\* C1 as stated: for every text of Symbol Table characters, every non-empty
\* letter separator and every word separator without a slash, decoding the
\* encoding gives the upper-cased text.
C1_MorseRoundTrip_AsClaimed ==
  (MorseRoundTripCall /\ Len(from.letterSep) > 0 /\ NoneIn(from.wordSep, {Ord("/")}))
    => ret = Return(ToUpperCase(from.text))

\* C1 amended: the Morse round trip gives the upper-cased text for every
\* text of Symbol Table characters when the letter separator is non-empty,
\* contains no '.', '-', '/' nor a character normalizePunctuation rewrites,
\* and no run of three white-space characters, and the word separator is
\* empty or contains no '.' or '-' and does not occur inside the letter
\* separator.
C1_MorseRoundTrip ==
  (MorseRoundTripCall /\ UnambiguousLetterSep(from.letterSep)
     /\ UnambiguousWordSep(from.wordSep, from.letterSep))
    => ret = Return(ToUpperCase(from.text))

C1_Witness ==
  /\ MorseRoundTripCall
  /\ from.letterSep = S("|")
  /\ from.wordSep = S(" / ")
  /\ from.text = S("AEA")
  /\ ret = Return(S("AEA"))

\* A decode of the output of textToBinary.
BinaryRoundTripCall == call.fn = "binaryToText" /\ from.fn = "textToBinary"

\* C2 as stated: for every text and every groupSizeBits, delimiter and
\* uppercase, binaryToText(textToBinary(t, ...)) = t.
C2_BinaryRoundTrip_AsClaimed ==
  BinaryRoundTripCall => ret = Return(from.text)

\* C2 amended: binaryToText(textToBinary(t, groupSizeBits, delimiter,
\* uppercase)) = t for every text, groupSizeBits and uppercase when the
\* delimiter is non-empty and contains neither '0' nor '1'.
C2_BinaryRoundTrip ==
  (BinaryRoundTripCall /\ Len(from.delimiter) > 0
     /\ NoneIn(from.delimiter, {Ord("0"), Ord("1")}))
    => ret = Return(from.text)

C2_Witness ==
  /\ BinaryRoundTripCall
  /\ from.text = GrinningFace \o S("H")
  /\ from.delimiter = S(", ")
  /\ from.groupSize = 8
  /\ ret = Return(from.text)

\* A text without a lone surrogate.
RECURSIVE WellFormedUTF16(_)
WellFormedUTF16(s) ==
  IF Len(s) = 0 THEN TRUE
  ELSE IF IsHighSurrogate(s[1])
       THEN Len(s) >= 2 /\ IsLowSurrogate(s[2]) /\ WellFormedUTF16(SubSeq(s, 3, Len(s)))
       ELSE ~IsLowSurrogate(s[1]) /\ WellFormedUTF16(Tail(s))

\* C3 as stated, for the texts and delimiters for which a decoder can tell
\* the bytes from the delimiter: for every well-formed text, every
\* delimiter without a hex digit, every uppercase and bytesPerGroup,
\* textToHex returns and hexToText of its result is the text.
C3_HexRoundTrip_AsClaimed ==
  /\ (call.fn = "textToHex" /\ WellFormedUTF16(call.text) /\ NoneIn(call.delimiter, {c \in 0..127 : IsHexDigit(c)}))
       => ret.kind = "return"
  /\ (call.fn = "hexToText" /\ from.fn = "textToHex" /\ WellFormedUTF16(from.text)
        /\ NoneIn(from.delimiter, {c \in 0..127 : IsHexDigit(c)}))
       => ret = Return(from.text)

\* The decode of the Morse card's initial input with the default separators.
SeparatorToleranceCall ==
  /\ call.fn = "fromMorse"
  /\ call.code = S("... --- ... / .... . .-.. .--. -.-.--")
  /\ call.letterSep = S(" ")
  /\ call.wordSep = S(" / ")
  /\ ~call.strict

\* C4 as stated: the example decodes to "sos help" compared without case,
\* the final token -.-.-- contributing nothing.
C4_SeparatorTolerance_AsClaimed ==
  SeparatorToleranceCall => (ret.kind = "return" /\ ToUpperCase(ret.val) = S("SOS HELP"))

\* C4 amended: fromMorse("... --- ... / .... . .-.. .--. -.-.--", " ",
\* " / ", false) is "SOS HELP!": the final token -.-.-- is the signal of
\* '!' in the Symbol Table and decodes to it.
C4_SeparatorTolerance ==
  SeparatorToleranceCall => ret = Return(S("SOS HELP!"))

C4_Witness ==
  /\ SeparatorToleranceCall
  /\ from.fn = "none"
  /\ ret.kind = "return"
  /\ ret.val[Len(ret.val)] = Ord("!")

\* C5 as stated: an unknown token contributes nothing (or one placeholder
\* when strict), so every character of the output of fromMorse is a Symbol
\* Table character, a word-joining space or the placeholder, and the
\* placeholder appears only when strict.
C5_UnknownTokenPolicy_AsClaimed ==
  (call.fn = "fromMorse" /\ ret.kind = "return")
    => /\ AllIn(ret.val, TableChars \cup {Ord(" ")} \cup {Placeholder[1]})
       /\ (~call.strict => NoneIn(ret.val, {Placeholder[1]}))

\* The maximal runs of binary digits of a string, in order.
IsBit(c) == c \in {Ord("0"), Ord("1")}

DigitRuns(b) ==
  LET starts == Without([i \in 1..Len(b) |-> IF IsBit(b[i]) /\ (i = 1 \/ ~IsBit(b[i - 1])) THEN i ELSE 0], {0})
      endOf(i) == Least({j \in i..Len(b) : j = Len(b) \/ ~IsBit(b[j + 1])})
  IN [k \in 1..Len(starts) |-> SubSeq(b, starts[k], endOf(starts[k]))]

\* C6 as stated: binaryToText returns a diagnostic string whenever the
\* input has a token that is not a binary numeral, as in binaryToText("2").
C6_MalformedBinary_AsClaimed ==
  (call.fn = "binaryToText" /\ \E i \in 1..Len(call.binary) :
       ~IsBit(call.binary[i]) /\ ~IsWhiteSpace(call.binary[i]))
    => ret = Return(InvalidBinarySequence)

\* C6 amended: binaryToText never reports a character that is not a binary
\* digit; such a character only separates tokens.  The result is the
\* diagnostic string when some maximal run of binary digits denotes a
\* number above 0x10FFFF and otherwise the characters the runs denote, so
\* binaryToText("2") is the empty string.
C6_MalformedBinary ==
  call.fn = "binaryToText"
    => LET runs == DigitRuns(call.binary)
       IN ret = Return(IF \E k \in 1..Len(runs) : ParseBinary(runs[k]) > MaxCodePoint
                       THEN InvalidBinarySequence
                       ELSE Concat([k \in 1..Len(runs) |-> FromCodePoint(ParseBinary(runs[k]))]))

C6_Witness ==
  /\ call.fn = "binaryToText"
  /\ call.binary = S("2")
  /\ ret = Return(<<>>)

\* Well-formed UTF-8 byte sequences (Unicode, table 3-7).
RECURSIVE WellFormedUTF8(_)
WellFormedUTF8(b) ==
  LET n == Len(b)
      cont(i, lo, hi) == i <= n /\ b[i] >= lo /\ b[i] <= hi
      rest(k) == WellFormedUTF8(SubSeq(b, k + 1, n))
  IN IF n = 0 THEN TRUE
     ELSE IF b[1] <= 127 THEN rest(1)
     ELSE IF b[1] >= 194 /\ b[1] <= 223 THEN cont(2, 128, 191) /\ rest(2)
     ELSE IF b[1] = 224 THEN cont(2, 160, 191) /\ cont(3, 128, 191) /\ rest(3)
     ELSE IF b[1] = 237 THEN cont(2, 128, 159) /\ cont(3, 128, 191) /\ rest(3)
     ELSE IF b[1] >= 225 /\ b[1] <= 239 THEN cont(2, 128, 191) /\ cont(3, 128, 191) /\ rest(3)
     ELSE IF b[1] = 240 THEN cont(2, 144, 191) /\ cont(3, 128, 191) /\ cont(4, 128, 191) /\ rest(4)
     ELSE IF b[1] >= 241 /\ b[1] <= 243 THEN cont(2, 128, 191) /\ cont(3, 128, 191) /\ cont(4, 128, 191) /\ rest(4)
     ELSE IF b[1] = 244 THEN cont(2, 128, 143) /\ cont(3, 128, 191) /\ cont(4, 128, 191) /\ rest(4)
     ELSE FALSE

\* The bytes the hex digits of a string denote (an even number of digits).
BytesOfHex(hex) ==
  LET digits == OnlyHexDigits(hex)
  IN [i \in 1..(Len(digits) \div 2) |-> HexValue(digits[2 * i - 1]) * 16 + HexValue(digits[2 * i])]

\* C7 as stated: hexToText returns a diagnostic string whenever the hex
\* digits form a byte sequence that is not valid UTF-8.
C7_InvalidUtf8Diagnostic_AsClaimed ==
  (call.fn = "hexToText" /\ Len(OnlyHexDigits(call.hex)) % 2 = 0 /\ ~WellFormedUTF8(BytesOfHex(call.hex)))
    => ret = Return(InvalidHexSequence)

\* The two hex digits of a byte.
HexDigitsLower == S("0123456789abcdef")

HexDigitsUpper == S("0123456789ABCDEF")

PairOf(b, upper) ==
  LET digits == IF upper THEN HexDigitsUpper ELSE HexDigitsLower
  IN <<digits[(b \div 16) + 1], digits[(b % 16) + 1]>>

\* The pairs of the bytes in groups of n, a delimiter between the groups.
GroupedPairs(bytes, delimiter, upper, n) ==
  LET groups == [g \in 1..((Len(bytes) + n - 1) \div n) |->
                   Concat([i \in ((g - 1) * n + 1)..(IF g * n <= Len(bytes) THEN g * n ELSE Len(bytes)) |->
                             PairOf(bytes[i], upper)])]
  IN Join([g \in 1..Len(groups) |-> groups[g]], delimiter)

\* C8 as stated: for every text, delimiter and bytesPerGroup >= 1 the
\* output of textToHex is the hex pairs of the UTF-8 bytes with exactly one
\* delimiter after every bytesPerGroup-th byte, none inside a group and
\* none trailing.
C8_HexGrouping_AsClaimed ==
  (call.fn = "textToHex" /\ call.bytesPerGroup >= 1)
    => ret = Return(GroupedPairs(TextEncode(call.text), call.delimiter, call.upper, call.bytesPerGroup))

\* C9 as stated: with bytesPerGroup = 1 the output of textToHex is one hex
\* pair per UTF-8 byte, the pairs joined by the delimiter, whatever the
\* delimiter.
C9_HexByteFraming_AsClaimed ==
  (call.fn = "textToHex" /\ call.bytesPerGroup = 1)
    => LET bytes == TextEncode(call.text)
       IN /\ ret.kind = "return"
          /\ ret.val = Join([i \in 1..Len(bytes) |-> PairOf(bytes[i], call.upper)], call.delimiter)

\* C10 as stated: every encoding function returns a string, without
\* throwing, for every text and every option value.
EncodingFunctions == {"toMorse", "textToBinary", "textToHex", "textToBase64", "urlEncode", "rot"}

C10_EncodingTotality_AsClaimed ==
  call.fn \in EncodingFunctions => ret.kind = "return"

\* A JavaScript string: a sequence of UTF-16 code units.
IsString(v) == DOMAIN v = 1..Len(v) /\ \A i \in 1..Len(v) : v[i] \in 0..65535

DecodeFunctions == {"fromMorse", "binaryToText", "hexToText", "base64ToText", "urlDecode"}

\* C11: every decode function (fromMorse, binaryToText, hexToText,
\* base64ToText, urlDecode) returns, for every input string and option
\* value, exactly one string and never throws.
C11_DecodingTotality ==
  call.fn \in DecodeFunctions => (ret.kind = "return" /\ IsString(ret.val))

\* A percent-escape that is not UTF-8 is answered by the diagnostic.
C11_Witness ==
  /\ call.fn = "urlDecode"
  /\ call.s = S("%C0%80")
  /\ ret = Return(InvalidURLEncoding)

\* rot applied to the result of rot.
RotOfRotatedCall == call.fn = "rot" /\ from.fn = "rot"

\* C12: for every text t and every integer shift s, negative and beyond
\* +-25 included, rot(rot(t, s), 26 - (s mod 26)) = t; rot(t, 0) = t; and
\* rot(rot(t, 13), 13) = t.
C12_RotationInversion ==
  /\ (RotOfRotatedCall /\ call.shift = 26 - (from.shift % 26)) => ret = Return(from.text)
  /\ (call.fn = "rot" /\ call.shift = 0) => ret = Return(call.text)
  /\ (RotOfRotatedCall /\ from.shift = 13 /\ call.shift = 13) => ret = Return(from.text)

\* "Zz" rotated by -27 is "Yy", and "Yy" rotated by 26 - ((-27) mod 26) = 1
\* is "Zz" again.
C12_Witness ==
  /\ RotOfRotatedCall
  /\ from.text = S("Zz")
  /\ from.shift = -27
  /\ call.text = S("Yy")
  /\ call.shift = 1
  /\ ret = Return(S("Zz"))

\* The letter at offset ((shift mod 26) + 26) mod 26 further in the
\* alphabet that starts at first, wrapping.
LetterAfter(c, first, shift) == first + ((c - first + (((shift % 26) + 26) % 26)) % 26)

\* The reference rotation of one code unit.
Rotated(c, shift) ==
  IF c \in Ord("a")..Ord("z") THEN LetterAfter(c, Ord("a"), shift)
  ELSE IF c \in Ord("A")..Ord("Z") THEN LetterAfter(c, Ord("A"), shift)
  ELSE c

\* C13: for every text and every integer shift, rot maps each ASCII
\* lower-case letter to the lower-case letter ((shift mod 26) + 26) mod 26
\* places further in a-z (wrapping), each ASCII upper-case letter likewise
\* within A-Z, leaves every other character unchanged and in place and
\* preserves the length; rot("Attack At Dawn", 13) = "Nggnpx Ng Qnja".
C13_RotationReference ==
  call.fn = "rot" =>
    /\ ret.kind = "return"
    /\ Len(ret.val) = Len(call.text)
    /\ \A i \in 1..Len(call.text) : ret.val[i] = Rotated(call.text[i], call.shift)
    /\ (call.text = S("Attack At Dawn") /\ call.shift = 13) => ret.val = S("Nggnpx Ng Qnja")

C13_Witness ==
  /\ call.fn = "rot"
  /\ from.fn = "none"
  /\ call.text = S("Attack At Dawn")
  /\ call.shift = 13
  /\ ret = Return(S("Nggnpx Ng Qnja"))

\* The positions at which a code point of s starts: every position but
\* the second half of a surrogate pair.
CodePointStarts(s) ==
  {i \in 1..Len(s) : ~(i > 1 /\ IsLowSurrogate(s[i]) /\ IsHighSurrogate(s[i - 1]))}

\* The k-th smallest element of a set of numbers.
Nth(set, k) == CHOOSE i \in set : Cardinality({j \in set : j < i}) = k - 1

IsPairAt(s, i) == i < Len(s) /\ IsHighSurrogate(s[i]) /\ IsLowSurrogate(s[i + 1])

\* The code point that starts at position i.
CodePointAt(s, i) ==
  IF IsPairAt(s, i) THEN 65536 + (s[i] - 55296) * 1024 + (s[i + 1] - 56320) ELSE s[i]

Power16(n) == IF n = 0 THEN 1 ELSE IF n = 1 THEN 16 ELSE IF n = 2 THEN 256 ELSE IF n = 3 THEN 4096
              ELSE IF n = 4 THEN 65536 ELSE 1048576

\* "U+" and the upper-case hex digits of cp, at least four of them.
HexLabel(cp) ==
  LET n == IF cp < 65536 THEN 4 ELSE IF cp < 1048576 THEN 5 ELSE 6
  IN S("U+") \o [k \in 1..n |-> S("0123456789ABCDEF")[((cp \div Power16(n - k)) % 16) + 1]]

\* The record of the code point that starts at position i.
CodepointRecord(s, i) ==
  [ch |-> SubSeq(s, i, IF IsPairAt(s, i) THEN i + 1 ELSE i), dec |-> CodePointAt(s, i),
   hex |-> HexLabel(CodePointAt(s, i))]

\* C14: for every text, inspectUnicode returns exactly one record per code
\* point (one, not two, for a character outside the BMP), in input order,
\* each with the character, its decimal code point and the label "U+"
\* followed by the upper-case hexadecimal code point padded with zeros to
\* at least four digits; the empty text gives the empty sequence, and
\* U+1F600 gives one record with code point 128512 and label U+1F600.
C14_UnicodeInspector ==
  call.fn = "inspectUnicode" =>
    /\ ret.kind = "return"
    /\ LET starts == CodePointStarts(call.s)
       IN /\ Len(ret.val) = Cardinality(starts)
          /\ \A k \in 1..Len(ret.val) : ret.val[k] = CodepointRecord(call.s, Nth(starts, k))
    /\ call.s = <<>> => ret.val = <<>>
    /\ call.s = GrinningFace => ret.val = <<[ch |-> GrinningFace, dec |-> 128512, hex |-> S("U+1F600")]>>

\* "Hi", a space, U+1F30A and U+1F680: seven code units, five records.
C14_Witness ==
  /\ call.fn = "inspectUnicode"
  /\ Len(call.s) = 7
  /\ Len(ret.val) = 5
  /\ ret.val[1].hex = S("U+0048")
  /\ ret.val[5] = [ch |-> <<55357, 56960>>, dec |-> 128640, hex |-> S("U+1F680")]

\* A decode of the output of textToBase64.
Base64RoundTripCall == call.fn = "base64ToText" /\ from.fn = "textToBase64"

\* C15: for every Unicode text t (a sequence of scalar values: no lone
\* surrogate), base64ToText(textToBase64(t)) = t.
C15_Base64RoundTrip ==
  (Base64RoundTripCall /\ WellFormedUTF16(from.text)) => ret = Return(from.text)

\* U+1F600 and U+00E9: six bytes of UTF-8, eight characters of Base64.
C15_Witness ==
  /\ Base64RoundTripCall
  /\ from.text = GrinningFace \o <<233>>
  /\ call.b64 = S("8J+YgMOp")
  /\ ret = Return(from.text)

\* C16: for every input, if the number of its characters in [0-9a-fA-F]
\* is odd, hexToText returns the diagnostic string "Invalid hex length",
\* whatever other characters are interleaved, as for hexToText("ABC").
C16_OddLengthHex ==
  (call.fn = "hexToText" /\ Cardinality({i \in 1..Len(call.hex) : IsHexDigit(call.hex[i])}) % 2 = 1)
    => ret = Return(S("Invalid hex length"))

C16_Witness ==
  /\ call.fn = "hexToText"
  /\ call.hex = S("ABC")
  /\ ret = Return(S("Invalid hex length"))

\* The number of digits of the base-2 numeral of n.
NumeralLength(n) == Least({k \in 1..21 : n < 2 ^ k})

\* The length of a group: the smallest multiple of groupSize that is at
\* least the numeral's length, the numeral's length for groupSize <= 0.
GroupLength(n, groupSize) ==
  IF groupSize <= 0 THEN NumeralLength(n)
  ELSE Least({m \in NumeralLength(n)..(NumeralLength(n) + groupSize) : m % groupSize = 0})

\* The group of the scalar value n: the digits of n, zeros in front.
GroupOfValue(n, groupSize) ==
  LET length == GroupLength(n, groupSize)
  IN [k \in 1..length |-> 48 + ((n \div (2 ^ (length - k))) % 2)]

\* C17: for every text, each scalar value yields one group: for
\* groupSizeBits > 0 its base-2 numeral padded with zeros on the left to
\* the smallest multiple of groupSizeBits that is at least the numeral's
\* length, for groupSizeBits <= 0 the numeral itself; a character outside
\* the BMP yields one group; the groups are joined with the delimiter as
\* the output spells it; textToBinary("A", 8, " ", false) = "01000001".
C17_BinaryPadding ==
  call.fn = "textToBinary" =>
    /\ ret.kind = "return"
    /\ LET starts == CodePointStarts(call.text)
       IN ret.val = Join([k \in 1..Cardinality(starts) |->
                            GroupOfValue(CodePointAt(call.text, Nth(starts, k)), call.groupSize)],
                         IF call.upper THEN ToUpperCase(call.delimiter) ELSE call.delimiter)
    /\ (call.text = S("A") /\ call.groupSize = 8 /\ call.delimiter = S(" ") /\ ~call.upper)
         => ret.val = S("01000001")

\* "H" and U+1F600 in groups of eight: 7 digits to 8, 17 digits to 24.
C17_Witness ==
  /\ call.fn = "textToBinary"
  /\ call.text = S("H") \o GrinningFace
  /\ call.groupSize = 8
  /\ call.delimiter = S(" ")
  /\ ret = Return(S("01001000 000000011111011000000000"))

\* C18 as stated: binaryToText returns a diagnostic string whenever some
\* token denotes a number above 0x10FFFF or a surrogate code point in
\* 0xD800..0xDFFF, and otherwise converts every token to the scalar value
\* it denotes.
C18_InvalidScalarDiagnostic_AsClaimed ==
  call.fn = "binaryToText"
    => LET runs == DigitRuns(call.binary)
       IN IF \E k \in 1..Len(runs) :
               ParseBinary(runs[k]) > MaxCodePoint \/ ParseBinary(runs[k]) \in 55296..57343
          THEN ret.kind = "return" /\ ret.val \in {S("Invalid binary sequence")}
          ELSE ret = Return(Concat([k \in 1..Len(runs) |-> FromCodePoint(ParseBinary(runs[k]))]))

\* C19 as stated: the uppercase option of textToBinary affects nothing:
\* the result with uppercase set equals the result with it unset.
C19_UppercaseNoEffect_AsClaimed ==
  call.fn = "textToBinary"
    => ret.val = textToBinary(call.text, call.groupSize, call.delimiter, ~call.upper)

\* The number of white-space characters in a row from position i of s.
WhiteRun(s, i) == Least({j \in i..(Len(s) + 1) : j > Len(s) \/ ~IsWhiteSpace(s[j])}) - i

\* The length of the word boundary that starts at position i of s, 0
\* when none does: the wordSeparator literal, or a slash with the white
\* space around it, or three or more white-space characters.
BoundaryAt(s, i, wordSep) ==
  IF Len(wordSep) > 0 /\ i + Len(wordSep) - 1 <= Len(s) /\ SubSeq(s, i, i + Len(wordSep) - 1) = wordSep
  THEN Len(wordSep)
  ELSE IF i + WhiteRun(s, i) <= Len(s) /\ s[i + WhiteRun(s, i)] = Ord("/")
  THEN WhiteRun(s, i) + 1 + WhiteRun(s, i + WhiteRun(s, i) + 1)
  ELSE IF WhiteRun(s, i) >= 3 THEN WhiteRun(s, i)
  ELSE 0

\* The first position from i at which a boundary starts, Len(s) + 1
\* without one.
NextBoundary(s, i, wordSep) ==
  Least({j \in i..Len(s) : BoundaryAt(s, j, wordSep) > 0} \cup {Len(s) + 1})

\* The words of s from position i: the text between the boundaries, read
\* from the left.
RECURSIVE WordsFrom(_, _, _)
WordsUpTo(s, i, wordSep, j) ==
  IF j > Len(s) THEN <<SubSeq(s, i, Len(s))>>
  ELSE <<SubSeq(s, i, j - 1)>> \o WordsFrom(s, j + BoundaryAt(s, j, wordSep), wordSep)

WordsFrom(s, i, wordSep) == WordsUpTo(s, i, wordSep, NextBoundary(s, i, wordSep))

\* The maximal runs of characters of w that are not white space.
SolidRuns(w) ==
  LET starts == Without([i \in 1..Len(w) |->
                           IF ~IsWhiteSpace(w[i]) /\ (i = 1 \/ IsWhiteSpace(w[i - 1])) THEN i ELSE 0], {0})
      endOf(i) == Least({j \in i..Len(w) : j = Len(w) \/ IsWhiteSpace(w[j + 1])})
  IN [k \in 1..Len(starts) |-> SubSeq(w, starts[k], endOf(starts[k]))]

\* The first position from i at which the literal sep occurs in w,
\* Len(w) + 1 without one.
NextOccurrence(w, i, sep) ==
  Least({j \in i..(Len(w) - Len(sep) + 1) : SubSeq(w, j, j + Len(sep) - 1) = sep} \cup {Len(w) + 1})

\* The pieces of w between the occurrences of the literal sep, read from
\* the left.
RECURSIVE PiecesFrom(_, _, _)
PiecesUpTo(w, i, sep, j) ==
  IF j > Len(w) THEN <<SubSeq(w, i, Len(w))>>
  ELSE <<SubSeq(w, i, j - 1)>> \o PiecesFrom(w, j + Len(sep), sep)

PiecesFrom(w, i, sep) == PiecesUpTo(w, i, sep, NextOccurrence(w, i, sep))

\* The symbols of a word: split at the letterSeparator literal, or at
\* white space when the letterSeparator is empty.
SymbolsOf(w, letterSep) ==
  IF Len(letterSep) > 0 THEN NonEmpty(PiecesFrom(w, 1, letterSep)) ELSE SolidRuns(w)

\* What one symbol contributes.
DecodedSymbol(sym, strict) ==
  IF Truthy(Get(REVMORSE, sym)) THEN Get(REVMORSE, sym).val
  ELSE IF strict THEN <<65533>> ELSE <<>>

DecodedWord(w, letterSep, strict) ==
  LET symbols == SymbolsOf(w, letterSep)
  IN Concat([i \in 1..Len(symbols) |-> DecodedSymbol(symbols[i], strict)])

\* C20: fromMorse recognizes a word boundary at every occurrence, read
\* from the left, of the wordSeparator literal, of a slash with optional
\* white space around it, or of three or more white-space characters in a
\* row; the words are split into letters after that; the decoded words
\* are joined with exactly one space whatever separated them; the empty
\* input gives the empty output.
C20_WordSegmentation ==
  call.fn = "fromMorse" =>
    LET words == NonEmpty(WordsFrom(normalizePunctuation(call.code), 1, call.wordSep))
    IN /\ ret = Return(Join([w \in 1..Len(words) |-> DecodedWord(words[w], call.letterSep, call.strict)], S(" ")))
       /\ call.code = <<>> => ret = Return(<<>>)

\* A slash, a slash in white space, three spaces and the separator "|":
\* four boundaries, five words.
C20_Witness ==
  /\ call.fn = "fromMorse"
  /\ call.code = S(".-   -... |.") \/ call.code = S("-/.  /  -")
  /\ call.letterSep = S(" ")
  /\ call.wordSep = S("|")
  /\ ret \in {Return(S("A B E")), Return(S("T E T"))}

\* A separator that holds a character of pattern syntax.
HasSyntaxChar(sep) == \E i \in 1..Len(sep) : sep[i] \in SyntaxChars

\* C21: whatever the letterSeparator and the wordSeparator are, the
\* characters . * + ? ^ $ { } ( ) | [ ] \ included, fromMorse builds its
\* two splitters and returns, and its result is the one obtained by
\* cutting the input at the exact literal occurrences of the separators
\* (and at the built-in boundaries, a slash or three white-space
\* characters): no separator is read as a pattern.
C21_LiteralSeparators ==
  (call.fn = "fromMorse" /\ (HasSyntaxChar(call.letterSep) \/ HasSyntaxChar(call.wordSep))) =>
    LET words == NonEmpty(WordsFrom(normalizePunctuation(call.code), 1, call.wordSep))
    IN /\ ret.kind = "return"
       /\ ret.val = Join([w \in 1..Len(words) |->
                            DecodedWord(words[w], call.letterSep, call.strict)], S(" "))

\* ".-" and "-..." around the letter separator ".*", then the word
\* separator "\s" and ".": decoded as "AB E", although ".*" read as a
\* pattern would match the whole input.
C21_Witness ==
  /\ call.fn = "fromMorse"
  /\ call.letterSep = S(".*")
  /\ call.wordSep = S("\\s")
  /\ call.code = S(".-.*-...\\s.")
  /\ ret = Return(S("AB E"))

\* The characters of a word: one per code point, a surrogate pair
\* together.
CharactersOf(word) ==
  LET starts == CodePointStarts(word)
  IN [k \in 1..Cardinality(starts) |->
        LET i == Nth(starts, k) IN SubSeq(word, i, IF IsPairAt(word, i) THEN i + 1 ELSE i)]

\* What one character of the uppercased text contributes.
PieceOf(ch, keepUnknown) ==
  IF ch \in DOMAIN MORSE THEN MORSE[ch] ELSE IF keepUnknown THEN ch ELSE <<>>

\* One word: the pieces that are left, joined with the letterSeparator.
SegmentOf(word, letterSep, keepUnknown) ==
  LET chars  == CharactersOf(word)
      pieces == [k \in 1..Len(chars) |-> PieceOf(chars[k], keepUnknown)]
  IN Join(Without(pieces, {<<>>}), letterSep)

\* C22: toMorse uppercases the text and cuts it at every single space;
\* a character of the Symbol Table becomes its signal, any other
\* character is left out when keepUnknown is false and passed through as
\* it is when keepUnknown is true; the pieces of a word are joined with
\* the letterSeparator and the words with the wordSeparator; a word that
\* loses all its characters is an empty segment, and nothing is thrown.
C22_ToMorseResult ==
  call.fn = "toMorse" =>
    LET words == PiecesFrom(ToUpperCase(call.text), 1, S(" "))
    IN /\ ret.kind = "return"
       /\ ret.val = Join([w \in 1..Len(words) |->
                            SegmentOf(words[w], call.letterSep, call.keepUnknown)], call.wordSep)
       /\ (\A w \in 1..Len(words) : NoneIn(words[w], TableChars)) /\ ~call.keepUnknown
            => ret.val = Join([w \in 1..Len(words) |-> <<>>], call.wordSep)

\* "~ a", nothing kept: the first word loses its only character and is
\* the empty segment before the word separator, the second is the signal
\* of "A".
C22_Witness ==
  /\ call.fn = "toMorse"
  /\ call.text = S("~ a")
  /\ ~call.keepUnknown
  /\ call.wordSep = S(" / ")
  /\ ret = Return(S(" / .-"))

\* C23: in every state of the page every signal of MORSE is a non-empty
\* string of dots and dashes, no two characters have the same signal,
\* the keys of REVMORSE are exactly the signals, REVMORSE[MORSE[c]] is c
\* for every character c of the table and MORSE[REVMORSE[s]] is s for
\* every signal s.
C23_SymbolTableInvariant ==
  LET morse == tables.MORSE
      revmorse == tables.REVMORSE
  IN /\ \A c \in DOMAIN morse : Len(morse[c]) > 0 /\ AllIn(morse[c], {Ord("."), Ord("-")})
     /\ \A c \in DOMAIN morse : \A d \in DOMAIN morse : morse[c] = morse[d] => c = d
     /\ DOMAIN revmorse = {morse[c] : c \in DOMAIN morse}
     /\ \A c \in DOMAIN morse : Get(revmorse, morse[c]) = StringValue(c)
     /\ \A s \in DOMAIN revmorse : Get(morse, revmorse[s]) = StringValue(s)

\* The 54 characters of the table after the card's text has been
\* encoded, "!" and its signal found through both tables.
C23_Witness ==
  /\ call.fn = "toMorse"
  /\ call.text = S("SOS help!")
  /\ Cardinality(DOMAIN tables.MORSE) = 54
  /\ Cardinality(DOMAIN tables.REVMORSE) = 54
  /\ tables.MORSE[S("!")] = S("-.-.--")
  /\ tables.REVMORSE[S("-.-.--")] = S("!")

\* The tables as the module builds them.
BuiltTables == [MORSE |-> MORSE, REVMORSE |-> REVMORSE]

\* C24: after any sequence of calls in any order the Symbol Table and
\* its inverse are the objects the module built, and a call with the
\* arguments of an earlier call completes as the earlier call did,
\* whatever was called in between.
C24_Statelessness ==
  /\ tables = BuiltTables
  /\ (earlier.call # NoCall /\ call = earlier.call) => ret = earlier.ret

\* The card's Morse is decoded, MaxCallsBetween other calls follow, and
\* the same decoding is asked for again.
C24_Witness ==
  /\ earlier.call.fn = "fromMorse"
  /\ earlier.since = MaxCallsBetween + 1
  /\ call = earlier.call
  /\ ret = Return(S("SOS E"))

====
